---------------------------- MODULE Spec2Model ----------------------------
(***************************************************************************)
(* Pattern performance tracking and memory injection of the ODIN trading   *)
(* pipeline: the pattern store (src/src/patterns/database.py), the         *)
(* classifier, the tracker, the memory injector, the analyzer and the part *)
(* of the daily pipeline (src/main.py) that feeds closed positions back.   *)
(*                                                                         *)
(* Numbers.  P&L values are integers (percent).  Every rate or average the *)
(* code keeps as a float is kept here as an exact fraction <<n, d>> in     *)
(* lowest terms with d > 0, so that "win_rate == winning / total" is an    *)
(* equality the model can refute and no rounding is assumed.               *)
(***************************************************************************)
EXTENDS Integers, Sequences, FiniteSets, TLC

VARIABLES
    patterns,       \* table trade_patterns: pattern_id -> row
    tradeHistory,   \* table pattern_trade_history: sequence of rows
    closeLog,       \* history variable: per pattern_id, every P&L a successful
                    \* trade-close update recorded, in close order
    today,          \* date('now'), as a day number
    ret,            \* the last operation and what it returned
    positions,      \* table position_tracking: sequence of rows
    memories,       \* PatternMemoryInjector.memories: the configured channels
    deliveries,     \* every add_situations call that returned, in call order
    injectionHistory,   \* PatternMemoryInjector._injection_history
    learningLog,    \* table pattern_learning_log: sequence of rows
    lastRegime,     \* PatternAnalyzer.last_regime
    exitCalls,      \* history variable: the track_exit calls of the current
                    \* run of the daily pipeline, in call order
    pc,             \* the daily pipeline's position
    tracker,        \* PatternTracker: _cache and _last_cache_clear
    clock           \* datetime.now() in seconds, and how often it advanced

injectorVars == <<memories, deliveries, injectionHistory, learningLog>>

-----------------------------------------------------------------------------
(* Bounds of the model.                                                    *)

MaxTrades == 2          \* trade closes in the wide specification
MaxRows == 1            \* rows of pattern_trade_history
MaxTicks == 3           \* advances of the clock in the context specification
MaxContextCloses == 1   \* trade closes in the context specification
MaxDeepTrades == 51     \* trade closes of the one pattern of SpecDeep
MaxSwitches == 1        \* changes of P&L between consecutive closes, SpecDeep

-----------------------------------------------------------------------------
(* Exact fractions.                                                        *)

Abs(x) == IF x < 0 THEN -x ELSE x

RECURSIVE GCD(_, _)
GCD(a, b) == IF b = 0 THEN a ELSE GCD(b, a % b)

Rat(n, d) ==
    LET s == IF d < 0 THEN -1 ELSE 1
        g == GCD(Abs(n), Abs(d))
    IN  <<(s * n) \div g, (s * d) \div g>>

RatInt(n) == <<n, 1>>
RatZero == <<0, 1>>
RatAdd(a, b) == Rat(a[1] * b[2] + b[1] * a[2], a[2] * b[2])
RatSub(a, b) == Rat(a[1] * b[2] - b[1] * a[2], a[2] * b[2])
RatMul(a, b) == Rat(a[1] * b[1], a[2] * b[2])
RatDivInt(a, k) == Rat(a[1], a[2] * k)
RatLT(a, b) == a[1] * b[2] < b[1] * a[2]
RatGT(a, b) == RatLT(b, a)

RECURSIVE SeqSum(_)
SeqSum(s) == IF s = <<>> THEN 0 ELSE Head(s) + SeqSum(Tail(s))

CountPositive(s) == Cardinality({i \in 1..Len(s) : s[i] > 0})

\* Python's s[-k:] for k > 0
LastK(s, k) == IF Len(s) <= k THEN s ELSE SubSeq(s, Len(s) - k + 1, Len(s))

-----------------------------------------------------------------------------
(* Program constants.                                                      *)

RecentWindow == 20      \* rolling window of update_pattern_performance
HighTrades == 50        \* total_trades >= 50 -> 'high'
MediumTrades == 20      \* total_trades >= 20 -> 'medium'

\* A nullable column: <<>> is NULL, <<v>> holds v
Null == <<>>
Some(v) == <<v>>

-----------------------------------------------------------------------------
(* Pattern identifiers.  classify_trade joins the four components with     *)
(* "_"; the identifier is kept here as the tuple of the four components,   *)
(* and the classifier's fallback identifier 'unknown' as a 1-tuple.        *)

PatternId(c) ==
    <<c.strategy_type, c.market_regime, c.volume_profile, c.technical_setup>>

UnknownId == <<"unknown">>

Components(st, rg, vo, te) ==
    [strategy_type |-> st, market_regime |-> rg,
     volume_profile |-> vo, technical_setup |-> te]

-----------------------------------------------------------------------------
(* Pattern store (PatternDatabase).                                        *)

\* The row INSERT OR IGNORE adds: the five columns it names, first_seen_date,
\* and the table's defaults for every other column.
FreshRecord(components, day) ==
    [components |-> components,
     total_trades |-> 0, winning_trades |-> 0, losing_trades |-> 0,
     win_rate |-> RatZero, avg_win_percent |-> RatZero,
     avg_loss_percent |-> RatZero, expectancy |-> RatZero,
     recent_trades |-> <<>>, recent_win_rate |-> RatZero,
     recent_avg_return |-> RatZero, momentum_score |-> RatZero,
     confidence_level |-> "low", is_active |-> TRUE,
     first_seen_date |-> day, last_traded_date |-> Null]

Exists(pt, pid) == pid \in DOMAIN pt

\* variant of CreatedTable: INSERT OR REPLACE
CreatedTableReplace(pt, pid, components, day) ==
    [q \in DOMAIN pt \cup {pid} |->
        IF q = pid THEN FreshRecord(components, day) ELSE pt[q]]

\* create_pattern: INSERT OR IGNORE, the table after the statement
CreatedTable(pt, pid, components, day) ==
    IF Exists(pt, pid)
    THEN pt
    ELSE [q \in DOMAIN pt \cup {pid} |->
            IF q = pid THEN FreshRecord(components, day) ELSE pt[q]]

\* get_pattern_stats: the row, or None
GetPatternStats(pt, pid) == IF Exists(pt, pid) THEN Some(pt[pid]) ELSE Null

\* variant of ConfidenceLevel: strict comparisons
ConfidenceLevelStrict(total_trades) ==
    IF total_trades > HighTrades THEN "high"
    ELSE IF total_trades > MediumTrades THEN "medium"
    ELSE "low"

ConfidenceLevel(total_trades) ==
    IF total_trades >= HighTrades THEN "high"
    ELSE IF total_trades >= MediumTrades THEN "medium"
    ELSE "low"

\* variant of RollWindow: a full window keeps its first 20 entries
RollWindowKeepFirst(recent, pnl) ==
    LET appended == Append(recent, pnl)
    IN  IF Len(appended) > RecentWindow
        THEN SubSeq(appended, 1, RecentWindow)
        ELSE appended

\* variant of RollWindow: the window keeps the last 10 entries
RollWindowHalf(recent, pnl) ==
    LET appended == Append(recent, pnl)
    IN  IF Len(appended) > RecentWindow \div 2
        THEN LastK(appended, RecentWindow \div 2)
        ELSE appended

\* recent_trades.append(pnl); keep the last 20
RollWindow(recent, pnl) ==
    LET appended == Append(recent, pnl)
    IN  IF Len(appended) > RecentWindow
        THEN LastK(appended, RecentWindow)
        ELSE appended

\* variant of WinIncrement: a break-even close counts as a win
WinIncrementBreakEven(pnl) == IF pnl >= 0 THEN 1 ELSE 0

WinIncrement(pnl) == IF pnl > 0 THEN 1 ELSE 0
LossIncrement(pnl) == IF pnl <= 0 THEN 1 ELSE 0

\* update_pattern_performance: the row it writes for the current row `cur`
\* and a trade result with P&L `pnl`, on day `day`
UpdatedStats(cur, pnl, day) ==
    LET total == cur.total_trades + 1
        winning == cur.winning_trades + WinIncrement(pnl)
        losing == cur.losing_trades + LossIncrement(pnl)
        avg_win ==
            IF pnl > 0
            THEN RatDivInt(RatAdd(RatMul(cur.avg_win_percent,
                                         RatInt(cur.winning_trades)),
                                  RatInt(pnl)),
                           IF winning = 0 THEN 1 ELSE winning)
            ELSE cur.avg_win_percent
        avg_loss ==
            IF pnl <= 0
            THEN RatDivInt(RatAdd(RatMul(cur.avg_loss_percent,
                                         RatInt(cur.losing_trades)),
                                  RatInt(Abs(pnl))),
                           IF losing = 0 THEN 1 ELSE losing)
            ELSE cur.avg_loss_percent
        win_rate == IF total > 0 THEN Rat(winning, total) ELSE RatZero
        expectancy ==
            RatSub(RatMul(win_rate, avg_win),
                   RatMul(RatSub(RatInt(1), win_rate), avg_loss))
        recent == RollWindow(cur.recent_trades, pnl)
        recent_wins == CountPositive(recent)
        recent_win_rate ==
            IF recent # <<>> THEN Rat(recent_wins, Len(recent)) ELSE RatZero
        recent_avg ==
            IF recent # <<>> THEN Rat(SeqSum(recent), Len(recent)) ELSE RatZero
    IN  [cur EXCEPT
            !.total_trades = total,
            !.winning_trades = winning,
            !.losing_trades = losing,
            !.win_rate = win_rate,
            !.avg_win_percent = avg_win,
            !.avg_loss_percent = avg_loss,
            !.expectancy = expectancy,
            !.recent_trades = recent,
            !.recent_win_rate = recent_win_rate,
            !.recent_avg_return = recent_avg,
            !.momentum_score = RatSub(recent_win_rate, win_rate),
            !.confidence_level = ConfidenceLevel(total),
            !.last_traded_date = Some(day)]

\* update_pattern_performance: its return value
UpdateSucceeds(pt, pid) == GetPatternStats(pt, pid) # Null

\* variant of PerformanceUpdated: a missing row is created and updated
PerformanceUpserted(pt, pid, pnl, day) ==
    [q \in DOMAIN pt \cup {pid} |->
        IF q = pid
        THEN UpdatedStats(IF Exists(pt, pid) THEN pt[pid]
                          ELSE FreshRecord(Components("", "", "", ""), day),
                          pnl, day)
        ELSE pt[q]]

\* variant of PerformanceUpdated: the UPDATE also sets is_active = 1
PerformanceUpdatedReactivates(pt, pid, pnl, day) ==
    IF UpdateSucceeds(pt, pid)
    THEN [pt EXCEPT ![pid] = [UpdatedStats(pt[pid], pnl, day)
                                 EXCEPT !.is_active = TRUE]]
    ELSE pt

\* update_pattern_performance: the table after the call
PerformanceUpdated(pt, pid, pnl, day) ==
    IF UpdateSucceeds(pt, pid)
    THEN [pt EXCEPT ![pid] = UpdatedStats(pt[pid], pnl, day)]
    ELSE pt

\* record_pattern_trade: INSERT INTO pattern_trade_history
TradeRow(pid, batch, symbol, day) ==
    [pattern_id |-> pid, batch_id |-> batch, symbol |-> symbol,
     entry_date |-> day, exit_date |-> Null, pnl_percent |-> Null]

\* update_pattern_trade_exit: UPDATE ... WHERE batch_id = ? AND symbol = ?
ExitWritten(rows, batch, symbol, pnl, day) ==
    [i \in 1..Len(rows) |->
        IF rows[i].batch_id = batch /\ rows[i].symbol = symbol
        THEN [rows[i] EXCEPT !.exit_date = Some(day),
                             !.pnl_percent = Some(pnl)]
        ELSE rows[i]]

\* history variable closeLog after a trade-close update
Logged(log, pt, pid, pnl) ==
    IF UpdateSucceeds(pt, pid)
    THEN [q \in DOMAIN log \cup {pid} |->
            IF q = pid
            THEN Append(IF pid \in DOMAIN log THEN log[pid] ELSE <<>>, pnl)
            ELSE log[q]]
    ELSE log

-----------------------------------------------------------------------------
(* Pattern classifier (PatternClassifier).  volume_ratio and               *)
(* price_vs_sma20 are in hundredths (1.5 is 150).  A regime label is the   *)
(* sequence of its words and separators, so that substring tests and       *)
(* lower() are computed, not assumed.                                      *)

RsiOversold == 30
RsiOverbought == 70
VolumeLow == 70
VolumeHigh == 150
VolumeExplosive == 250
FgExtremeFear == 25
FgFear == 45
FgNeutral == 55
FgGreed == 75

LowerWord(w) ==
    CASE w = "Extreme" -> "extreme"
      [] w = "Fear" -> "fear"
      [] w = "Greed" -> "greed"
      [] w = "Neutral" -> "neutral"
      [] OTHER -> w

Lower(text) == [i \in 1..Len(text) |-> LowerWord(text[i])]

\* Python's `sub in text`
Contains(text, sub) ==
    \E i \in 1..(Len(text) - Len(sub) + 1) :
        SubSeq(text, i, i + Len(sub) - 1) = sub

\* the value None where a label is expected
NoneLabel == <<"<None>">>

ClassifyStrategy(m) ==
    IF m.rsi_2 < RsiOversold /\ m.price_vs_sma20 < 98 THEN "mean_reversion"
    ELSE IF m.rsi_2 > RsiOverbought /\ m.volume_ratio > VolumeHigh
         THEN "momentum"
    ELSE IF 99 < m.price_vs_sma20 /\ m.price_vs_sma20 < 102
            /\ m.volume_ratio > VolumeHigh
         THEN "breakout"
    ELSE IF 30 < m.rsi_2 /\ m.rsi_2 < 50 /\ m.rsi_change > 5 THEN "bounce"
    ELSE "mean_reversion"

ClassifyRegime(rd) ==
    IF rd.has_regime
    THEN LET regime_text == Lower(rd.regime)
         IN  IF Contains(regime_text, <<"extreme", " ", "fear">>)
             THEN "extreme_fear"
             ELSE IF Contains(regime_text, <<"fear">>) THEN "fear"
             ELSE IF Contains(regime_text, <<"greed">>)
                     /\ Contains(regime_text, <<"extreme">>)
                  THEN "extreme_greed"
             ELSE IF Contains(regime_text, <<"greed">>) THEN "greed"
             ELSE "neutral"
    ELSE IF rd.fear_greed_value <= FgExtremeFear THEN "extreme_fear"
    ELSE IF rd.fear_greed_value <= FgFear THEN "fear"
    ELSE IF rd.fear_greed_value <= FgNeutral THEN "neutral"
    ELSE IF rd.fear_greed_value <= FgGreed THEN "greed"
    ELSE "extreme_greed"

ClassifyVolume(m) ==
    IF m.volume_ratio < VolumeLow THEN "low"
    ELSE IF m.volume_ratio < VolumeHigh THEN "normal"
    ELSE IF m.volume_ratio < VolumeExplosive THEN "high"
    ELSE "explosive"

ClassifyTechnical(m) ==
    IF m.rsi_2 < RsiOversold THEN "oversold"
    ELSE IF m.rsi_2 > RsiOverbought THEN "overbought"
    ELSE "neutral"

\* classify_trade raises inside its try block: None.lower()
ClassifyRaises(rd) == rd.has_regime /\ rd.regime = NoneLabel

ClassifiedComponents(m, rd) ==
    Components(ClassifyStrategy(m), ClassifyRegime(rd),
               ClassifyVolume(m), ClassifyTechnical(m))

\* classify_trade: the pattern_id it returns
ClassifiedId(m, rd) ==
    IF ClassifyRaises(rd) THEN UnknownId
    ELSE PatternId(ClassifiedComponents(m, rd))

-----------------------------------------------------------------------------
(* Pattern context and its cache (PatternTracker).  Times are in seconds.  *)

CacheTimeout == 300
ClearInterval == 3600
SecondsPerDay == 24 * 60 * 60

\* timedelta.seconds of an elapsed time: the days are held apart, in .days
Seconds(elapsed) == elapsed % SecondsPerDay

\* PatternTracker.__init__
NewTracker == [cache |-> <<>>, last_cache_clear |-> 0]
StartClock == [now |-> 0, ticks |-> 0]

DescribeMomentum(momentum_score) ==
    IF RatGT(momentum_score, <<15, 100>>) THEN "strongly_improving"
    ELSE IF RatGT(momentum_score, <<5, 100>>) THEN "improving"
    ELSE IF RatLT(momentum_score, <<0 - 15, 100>>) THEN "strongly_declining"
    ELSE IF RatLT(momentum_score, <<0 - 5, 100>>) THEN "declining"
    ELSE "stable"

\* _generate_recommendation: the sentence, by its opening words
GenerateRecommendation(stats) ==
    IF stats.confidence_level = "low" THEN "Low confidence"
    ELSE IF RatGT(stats.recent_win_rate, <<7, 10>>)
            /\ RatGT(stats.momentum_score, <<1, 10>>)
         THEN "HOT pattern"
    ELSE IF RatLT(stats.recent_win_rate, <<35, 100>>) THEN "COLD pattern"
    ELSE IF RatGT(stats.expectancy, <<2, 100>>) THEN "Profitable pattern"
    ELSE IF RatLT(stats.expectancy, <<0 - 1, 100>>) THEN "Losing pattern"
    ELSE "Neutral pattern"

NoDataContext(pid) ==
    [pattern_id |-> pid, exists |-> FALSE,
     recommendation |-> "No historical data for this pattern"]

BuiltContext(pid, stats) ==
    [pattern_id |-> pid, exists |-> TRUE,
     total_trades |-> stats.total_trades, win_rate |-> stats.win_rate,
     recent_win_rate |-> stats.recent_win_rate,
     expectancy |-> stats.expectancy, confidence |-> stats.confidence_level,
     momentum |-> DescribeMomentum(stats.momentum_score),
     recent_trades |->
         SubSeq(stats.recent_trades,
                IF Len(stats.recent_trades) > 5
                THEN Len(stats.recent_trades) - 4 ELSE 1,
                Len(stats.recent_trades)),
     recommendation |-> GenerateRecommendation(stats)]

\* get_pattern_context past the cache: the context built from the store
FreshContext(pt, pid) ==
    IF GetPatternStats(pt, pid) = Null THEN NoDataContext(pid)
    ELSE BuiltContext(pid, pt[pid])

\* get_pattern_context, the cache check
CacheHit(tr, pid, now) ==
    /\ pid \in DOMAIN tr.cache
    /\ Seconds(now - tr.cache[pid].timestamp) < CacheTimeout

\* _clean_cache
CacheCleaned(tr, now) ==
    IF Seconds(now - tr.last_cache_clear) > ClearInterval
    THEN [cache |-> <<>>, last_cache_clear |-> now]
    ELSE tr

\* self._cache[pattern_id] = (context, datetime.now()); self._clean_cache()
ContextStored(tr, pid, context, now) ==
    CacheCleaned(
        [tr EXCEPT !.cache =
            [q \in DOMAIN tr.cache \cup {pid} |->
                IF q = pid THEN [context |-> context, timestamp |-> now]
                ELSE tr.cache[q]]],
        now)

\* get_pattern_context: the tracker it leaves
ContextCached(tr, pt, pid, now) ==
    IF CacheHit(tr, pid, now) \/ GetPatternStats(pt, pid) = Null THEN tr
    ELSE ContextStored(tr, pid, BuiltContext(pid, pt[pid]), now)

\* get_pattern_context: the context it returns
ContextReturned(tr, pt, pid, now) ==
    IF CacheHit(tr, pid, now) THEN tr.cache[pid].context
    ELSE FreshContext(pt, pid)

\* _invalidate_cache
Invalidated(tr, pid) ==
    [tr EXCEPT !.cache = [q \in DOMAIN tr.cache \ {pid} |-> tr.cache[q]]]

-----------------------------------------------------------------------------
(* Operations of the store, the classifier and the tracker.                *)

\* the channels _extract_memory_systems looks for
AllChannels ==
    {"trader_memory", "bull_memory", "bear_memory", "risk_manager_memory",
     "invest_judge_memory"}

Ret(op, pid, ok) == [op |-> op, pid |-> pid, ok |-> ok]

\* PatternDatabase.create_pattern(pattern_id, components)
CreatePattern(pid, components) ==
    /\ patterns' = CreatedTable(patterns, pid, components, today)
    /\ ret' = Ret("create_pattern", pid, TRUE)
    /\ UNCHANGED <<tradeHistory, closeLog, today, positions, lastRegime,
                   injectorVars, exitCalls, pc, tracker, clock>>

\* PatternClassifier.classify_trade(stock_metrics, regime_data)
ClassifyTrade(m, rd) ==
    /\ patterns' =
          IF ClassifyRaises(rd) THEN patterns
          ELSE CreatedTable(patterns, ClassifiedId(m, rd),
                            ClassifiedComponents(m, rd), today)
    /\ ret' = Ret("classify_trade", ClassifiedId(m, rd), ~ClassifyRaises(rd))
    /\ UNCHANGED <<tradeHistory, closeLog, today, positions, lastRegime,
                   injectorVars, exitCalls, pc, tracker, clock>>

\* PatternDatabase.update_pattern_performance(pattern_id, trade_result)
UpdatePatternPerformance(pid, pnl) ==
    /\ patterns' = PerformanceUpdated(patterns, pid, pnl, today)
    /\ closeLog' = Logged(closeLog, patterns, pid, pnl)
    /\ ret' = Ret("update_pattern_performance", pid,
                  UpdateSucceeds(patterns, pid))
    /\ UNCHANGED <<tradeHistory, today, positions, lastRegime,
                   injectorVars, exitCalls, pc, tracker, clock>>

\* PatternTracker.track_entry(pattern_id, entry_data)
TrackEntry(pid, batch, symbol) ==
    /\ tradeHistory' = Append(tradeHistory, TradeRow(pid, batch, symbol, today))
    /\ tracker' = Invalidated(tracker, pid)
    /\ ret' = Ret("track_entry", pid, TRUE)
    /\ UNCHANGED <<patterns, closeLog, today, positions, lastRegime,
                   injectorVars, exitCalls, pc, clock>>

\* PatternTracker.track_exit(pattern_id, exit_data)
TrackExit(pid, batch, symbol, pnl) ==
    /\ tradeHistory' = ExitWritten(tradeHistory, batch, symbol, pnl, today)
    /\ patterns' = PerformanceUpdated(patterns, pid, pnl, today)
    /\ closeLog' = Logged(closeLog, patterns, pid, pnl)
    /\ tracker' = IF UpdateSucceeds(patterns, pid)
                  THEN Invalidated(tracker, pid) ELSE tracker
    /\ ret' = Ret("track_exit", pid, UpdateSucceeds(patterns, pid))
    /\ UNCHANGED <<today, positions, lastRegime, injectorVars, exitCalls, pc,
                   clock>>

-----------------------------------------------------------------------------
(* Spec: the store, the classifier and the tracker over a few patterns.    *)

Metric(rsi, vol, price, change) ==
    [rsi_2 |-> rsi, volume_ratio |-> vol, price_vs_sma20 |-> price,
     rsi_change |-> change]

RegimeData(has, label, fg) ==
    [has_regime |-> has, regime |-> label, fear_greed_value |-> fg]

WideMetrics == {Metric(25, 180, 97, 0), Metric(75, 180, 97, 0)}
WideRegimes == {RegimeData(TRUE, <<"fear">>, 35),
                RegimeData(TRUE, NoneLabel, 35)}
WideComponents ==
    {ClassifiedComponents(m, rd) : m \in WideMetrics,
                                   rd \in {RegimeData(TRUE, <<"fear">>, 35)}}
WideCreateIds == {PatternId(c) : c \in WideComponents}
WideIds == WideCreateIds \cup {UnknownId}
WidePnl == {0, 3}
Batches == {"b1"}
Symbols == {"AAPL"}

LogOf(pid) == IF pid \in DOMAIN closeLog THEN closeLog[pid] ELSE <<>>

RECURSIVE TotalCloses(_, _)
TotalCloses(log, ids) ==
    IF ids = {} THEN 0
    ELSE LET q == CHOOSE x \in ids : TRUE
         IN  Len(log[q]) + TotalCloses(log, ids \ {q})

Closes == TotalCloses(closeLog, DOMAIN closeLog)

Init ==
    /\ patterns = <<>>
    /\ tradeHistory = <<>>
    /\ closeLog = <<>>
    /\ today = 0
    /\ ret = Ret("init", UnknownId, TRUE)
    /\ positions = <<>>
    /\ memories = AllChannels
    /\ deliveries = <<>>
    /\ injectionHistory = <<>>
    /\ learningLog = <<>>
    /\ lastRegime = Null
    /\ exitCalls = <<>>
    /\ pc = "idle"
    /\ tracker = NewTracker
    /\ clock = StartClock

Next ==
    \/ \E pid \in WideCreateIds, c \in WideComponents : CreatePattern(pid, c)
    \/ \E m \in WideMetrics, rd \in WideRegimes : ClassifyTrade(m, rd)
    \/ \E pid \in WideIds, pnl \in WidePnl :
          Closes < MaxTrades /\ UpdatePatternPerformance(pid, pnl)
    \/ \E pid \in WideIds, b \in Batches, s \in Symbols :
          Len(tradeHistory) < MaxRows /\ TrackEntry(pid, b, s)
    \/ \E pid \in WideIds, b \in Batches, s \in Symbols, pnl \in WidePnl :
          Closes < MaxTrades /\ TrackExit(pid, b, s, pnl)

vars == <<patterns, tradeHistory, closeLog, today, ret, positions, memories,
         deliveries, injectionHistory, learningLog, lastRegime, exitCalls, pc,
         tracker, clock>>

Spec == Init /\ [][Next]_vars

-----------------------------------------------------------------------------
(* Properties of the store, the classifier and the tracker.                *)

\* C1: in every reachable state every pattern has winning_trades +
\* losing_trades = total_trades, its counts are those of the closes recorded
\* for it (a close with P&L > 0 is a win, any other a loss), and whenever
\* total_trades > 0 its win_rate is winning_trades / total_trades.
StatsConsistent ==
    \A pid \in DOMAIN patterns :
        LET r == patterns[pid]
            log == LogOf(pid)
        IN  /\ r.winning_trades + r.losing_trades = r.total_trades
            /\ r.total_trades = Len(log)
            /\ r.winning_trades = CountPositive(log)
            /\ r.total_trades > 0 =>
                  /\ r.win_rate[2] > 0
                  /\ r.win_rate[1] * r.total_trades
                        = r.winning_trades * r.win_rate[2]

\* a pattern with a win and a break-even close, created and entered before
StatsConsistentWitness ==
    /\ tradeHistory # <<>>
    /\ \E pid \in DOMAIN patterns :
          /\ patterns[pid].total_trades = 2
          /\ patterns[pid].winning_trades = 1
          /\ \E i \in 1..Len(LogOf(pid)) : LogOf(pid)[i] = 0

\* C5: create_pattern for a pattern_id that already exists, from the store's
\* caller or from classify_trade, with any components, returns success and
\* leaves the whole table of patterns as it was.
CreateIdempotent ==
    [][(/\ ret'.op \in {"create_pattern", "classify_trade"}
        /\ Exists(patterns, ret'.pid))
       => (ret'.ok /\ patterns' = patterns)]_vars

\* create_pattern has just been called for a pattern that has trades
CreateIdempotentWitness ==
    /\ ret.op \in {"create_pattern", "classify_trade"}
    /\ Exists(patterns, ret.pid)
    /\ patterns[ret.pid].total_trades > 0

\* C6: update_pattern_performance and track_exit for a pattern_id with no
\* row return failure, create no row and change no pattern's statistics.
UnknownUpdateFails ==
    [][(/\ ret'.op \in {"update_pattern_performance", "track_exit"}
        /\ ~Exists(patterns, ret'.pid))
       => (~ret'.ok /\ patterns' = patterns /\ closeLog' = closeLog)]_vars

\* track_exit has just failed for an unknown id while another pattern has
\* trades
UnknownUpdateFailsWitness ==
    /\ ret.op = "track_exit"
    /\ ~ret.ok
    /\ ~Exists(patterns, ret.pid)
    /\ \E q \in DOMAIN patterns : patterns[q].total_trades > 0

-----------------------------------------------------------------------------
(* SpecDeep: one pattern and a long run of trade closes, long enough for   *)
(* the rolling window to overflow and for every confidence tier.           *)

DeepComponents == Components("mean_reversion", "fear", "high", "oversold")
DeepId == PatternId(DeepComponents)
DeepPnl == {-2, 3}

Switches(log) ==
    Cardinality({i \in 1..(Len(log) - 1) : log[i] # log[i + 1]})

NextDeep ==
    \/ CreatePattern(DeepId, DeepComponents)
    \/ \E b \in Batches, s \in Symbols, pnl \in DeepPnl :
          /\ Len(LogOf(DeepId)) < MaxDeepTrades
          /\ Switches(Append(LogOf(DeepId), pnl)) <= MaxSwitches
          /\ TrackExit(DeepId, b, s, pnl)

SpecDeep == Init /\ [][NextDeep]_vars

-----------------------------------------------------------------------------
(* Properties of a long run of trade closes.                               *)

\* C3: the rolling window of a pattern holds at most 20 P&L values, and
\* they are the most recent min(n, 20) of its n closes, in close order; so a
\* close that arrives with the window full drops exactly the oldest entry.
WindowIsRecentCloses ==
    \A pid \in DOMAIN patterns :
        /\ Len(patterns[pid].recent_trades) <= 20
        /\ patterns[pid].recent_trades = LastK(LogOf(pid), 20)

\* after the 21st close: the first close, different from the second, is gone
WindowIsRecentClosesWitness ==
    /\ Len(LogOf(DeepId)) = 21
    /\ LogOf(DeepId)[1] # LogOf(DeepId)[2]
    /\ Len(patterns[DeepId].recent_trades) = 20
    /\ \A i \in 1..20 : patterns[DeepId].recent_trades[i] = LogOf(DeepId)[i + 1]

TierOf(total_trades) ==
    IF total_trades < 20 THEN "low"
    ELSE IF total_trades <= 49 THEN "medium"
    ELSE "high"

TierRank(tier) ==
    CASE tier = "low" -> 0 [] tier = "medium" -> 1 [] tier = "high" -> 2

\* C4: after every successful trade-close update the pattern's confidence
\* tier is low below 20 trades, medium from 20 to 49 and high from 50, and
\* the update never lowers the tier.
ConfidenceByTrades ==
    [][(ret'.op = "track_exit" /\ ret'.ok)
       => (/\ patterns'[ret'.pid].confidence_level
                 = TierOf(patterns'[ret'.pid].total_trades)
           /\ TierRank(patterns'[ret'.pid].confidence_level)
                 >= TierRank(patterns[ret'.pid].confidence_level))]_vars

\* the 50th close has made the pattern 'high'
ConfidenceByTradesWitness ==
    /\ ret.op = "track_exit"
    /\ ret.ok
    /\ patterns[DeepId].total_trades = 50
    /\ patterns[DeepId].confidence_level = "high"

-----------------------------------------------------------------------------
(* Memory injector (PatternMemoryInjector).  A memory is kept as the       *)
(* pattern it is about and the kind of text it carries; a delivery is one  *)
(* add_situations call that returned, with the channel and the memories    *)
(* handed to it.                                                           *)

MaxHistory == 100

\* dict(row) of trade_patterns: the row with its pattern_id column
PatternDict(pid, row) == [pattern_id |-> pid, stats |-> row]

Memory(kind, pid) == [kind |-> kind, pattern_id |-> pid]

Delivery(channel, entries) == [channel |-> channel, entries |-> entries]

\* variant of WasRecentlyInjected: nothing counts as recently injected
NeverRecentlyInjected(history, pid) == FALSE

\* _was_recently_injected
WasRecentlyInjected(history, pid) ==
    \E i \in 1..Len(history) : history[i] = pid

\* _record_injection
RecordInjection(history, pid) ==
    LET appended == Append(history, pid)
    IN  IF Len(appended) > MaxHistory
        THEN LastK(appended, MaxHistory)
        ELSE appended

\* variant of BearThreshold: 0.55
BearThresholdWide == <<11, 20>>

BullThreshold == <<3, 5>>       \* 0.60
BearThreshold == <<9, 20>>      \* 0.45

\* inject_pattern_batch, the loop over pattern_stats_list: the five lists of
\* memories and the buffer after it
RECURSIVE PreparedBatch(_, _)
PreparedBatch(list, acc) ==
    IF list = <<>> THEN acc
    ELSE LET p == Head(list)
             pid == p.pattern_id
             bullish == RatGT(p.stats.win_rate, BullThreshold)
             bearish == ~bullish /\ RatLT(p.stats.win_rate, BearThreshold)
         IN  IF WasRecentlyInjected(acc.history, pid)
             THEN PreparedBatch(Tail(list), acc)
             ELSE PreparedBatch(Tail(list),
                    [trader |-> Append(acc.trader, Memory("lesson", pid)),
                     bull |-> IF bullish
                              THEN Append(acc.bull, Memory("bullish", pid))
                              ELSE acc.bull,
                     judge |-> IF bullish
                               THEN Append(acc.judge, Memory("favorable", pid))
                               ELSE acc.judge,
                     bear |-> IF bearish
                              THEN Append(acc.bear, Memory("bearish", pid))
                              ELSE acc.bear,
                     risk |-> IF bearish
                              THEN Append(acc.risk, Memory("high_risk", pid))
                              ELSE acc.risk,
                     history |-> RecordInjection(acc.history, pid)])

NothingPrepared(history) ==
    [trader |-> <<>>, bull |-> <<>>, judge |-> <<>>, bear |-> <<>>,
     risk |-> <<>>, history |-> history]

\* inject_pattern_batch, the order of its five add_situations calls
DeliveryPlan(prep) ==
    <<Delivery("trader_memory", prep.trader),
      Delivery("bull_memory", prep.bull),
      Delivery("bear_memory", prep.bear),
      Delivery("risk_manager_memory", prep.risk),
      Delivery("invest_judge_memory", prep.judge)>>

\* inject_pattern_batch, its deliveries: `bad` are the channels whose
\* add_situations raises; the first one reached ends the call
RECURSIVE BatchDelivered(_, _, _, _)
BatchDelivered(plan, configured, bad, acc) ==
    IF plan = <<>> THEN acc
    ELSE LET d == Head(plan)
         IN  IF d.entries # <<>> /\ d.channel \in configured
             THEN IF d.channel \in bad
                  THEN [acc EXCEPT !.raised = TRUE]
                  ELSE BatchDelivered(Tail(plan), configured, bad,
                          [log |-> Append(acc.log, d),
                           count |-> acc.count + Len(d.entries),
                           raised |-> FALSE])
             ELSE BatchDelivered(Tail(plan), configured, bad, acc)

PatternIds(list) == [i \in 1..Len(list) |-> list[i].pattern_id]

\* record_learning_event: the row it inserts
LearningEvent(lesson_type, ids, systems) ==
    [lesson_type |-> lesson_type, pattern_ids_affected |-> ids,
     injected_to_memories |-> systems]

\* inject_pattern_batch, its end: the learning event and what it returns,
\* after the loop left `prep` and the deliveries left `out`
BatchLogged(list, injection_type, configured, events, prep, out) ==
    [deliveries |-> out.log,
     history |-> prep.history,
     events |-> IF ~out.raised /\ out.count > 0
                THEN Append(events,
                            LearningEvent(injection_type, PatternIds(list),
                                          configured))
                ELSE events,
     count |-> out.count,
     raised |-> out.raised]

\* inject_pattern_batch, from its deliveries on
BatchInjected(list, injection_type, bad, configured, log, events, prep) ==
    BatchLogged(list, injection_type, configured, events, prep,
                BatchDelivered(DeliveryPlan(prep), configured, bad,
                               [log |-> log, count |-> 0, raised |-> FALSE]))

\* inject_pattern_batch: everything the call leaves behind
BatchOutcome(list, injection_type, bad, configured, history, log, events) ==
    BatchInjected(list, injection_type, bad, configured, log, events,
                  PreparedBatch(list, NothingPrepared(history)))

\* the state after an inject_pattern_batch with outcome `out`
BatchApplied(list, bad, out) ==
    /\ deliveries' = out.deliveries
    /\ injectionHistory' = out.history
    /\ learningLog' = out.events
    /\ ret' = [op |-> "inject_pattern_batch", list |-> list, bad |-> bad,
               history_before |-> injectionHistory,
               log_before |-> Len(deliveries),
               count |-> out.count, raised |-> out.raised]
    /\ UNCHANGED <<patterns, tradeHistory, closeLog, today, positions,
                   memories, lastRegime, exitCalls, pc, tracker, clock>>

\* PatternMemoryInjector.inject_pattern_batch(pattern_stats_list, type)
InjectPatternBatch(list, injection_type, bad) ==
    BatchApplied(list, bad,
                 BatchOutcome(list, injection_type, bad, memories,
                              injectionHistory, deliveries, learningLog))

-----------------------------------------------------------------------------
(* Rows of trade_patterns with a history: the row a pattern has after the  *)
(* closes of `log`, in order.                                              *)

RECURSIVE StatsAfter(_, _, _)
StatsAfter(row, log, day) ==
    IF log = <<>> THEN row
    ELSE StatsAfter(UpdatedStats(row, Head(log), day), Tail(log), day)

Repeat(v, n) == [i \in 1..n |-> v]

\* the day of the closes of a seeded row: 25 days before day 0
SeedDay == 0 - 25

SeededRow(components, log) ==
    StatsAfter(FreshRecord(components, SeedDay), log, SeedDay)

HotComponents == Components("momentum", "greed", "high", "overbought")
LosingComponents == Components("mean_reversion", "fear", "high", "oversold")
MiddlingComponents == Components("bounce", "neutral", "normal", "neutral")
BreakingComponents == Components("breakout", "greed", "explosive", "neutral")

HotLog == Repeat(-2, 10) \o Repeat(3, 20)
LosingLog == Repeat(3, 2) \o Repeat(-2, 8)
MiddlingLog == <<3, -2>>
BreakingLog == Repeat(3, 30) \o Repeat(-2, 16)

HotDict == PatternDict(PatternId(HotComponents),
                       SeededRow(HotComponents, HotLog))
LosingDict == PatternDict(PatternId(LosingComponents),
                          SeededRow(LosingComponents, LosingLog))
MiddlingDict == PatternDict(PatternId(MiddlingComponents),
                            SeededRow(MiddlingComponents, MiddlingLog))
BreakingDict == PatternDict(PatternId(BreakingComponents),
                            SeededRow(BreakingComponents, BreakingLog))

-----------------------------------------------------------------------------
(* SpecInject: inject_pattern_batch under every kind of channel            *)
(* configuration, with channels that fail.                                 *)

\* what _extract_memory_systems can return: every attribute present, the
\* trader's missing, two present, the graph missing
ChannelConfigs ==
    {AllChannels, AllChannels \ {"trader_memory"},
     {"trader_memory", "bull_memory"}, {}}

InjectDicts == {HotDict, LosingDict, MiddlingDict}
InjectLists ==
    {<<>>} \cup {<<a>> : a \in InjectDicts}
           \cup {<<HotDict, LosingDict>>, <<LosingDict, LosingDict>>,
                 <<MiddlingDict, HotDict>>}
InjectionTypes == {"weekly_analysis"}
FailingChannels == {{}, {"trader_memory"}, {"bull_memory"}}

InitInject ==
    /\ patterns = <<>>
    /\ tradeHistory = <<>>
    /\ closeLog = <<>>
    /\ today = 0
    /\ ret = Ret("init", UnknownId, TRUE)
    /\ positions = <<>>
    /\ memories \in ChannelConfigs
    /\ deliveries = <<>>
    /\ injectionHistory = <<>>
    /\ learningLog = <<>>
    /\ lastRegime = Null
    /\ exitCalls = <<>>
    /\ pc = "idle"
    /\ tracker = NewTracker
    /\ clock = StartClock

NextInject ==
    \E list \in InjectLists, t \in InjectionTypes, bad \in FailingChannels :
        InjectPatternBatch(list, t, bad)

SpecInject == InitInject /\ [][NextInject]_vars

-----------------------------------------------------------------------------
(* Properties of inject_pattern_batch.                                     *)

\* the add_situations calls of the last inject_pattern_batch that returned
NewDeliveries == SubSeq(deliveries, ret.log_before + 1, Len(deliveries))

CountIn(entries, pid) ==
    Cardinality({i \in 1..Len(entries) : entries[i].pattern_id = pid})

\* how many memories about `pid` the deliveries of `log` handed to `channels`
RECURSIVE DeliveryCount(_, _, _)
DeliveryCount(log, channels, pid) ==
    IF log = <<>> THEN 0
    ELSE (IF Head(log).channel \in channels
          THEN CountIn(Head(log).entries, pid) ELSE 0)
         + DeliveryCount(Tail(log), channels, pid)

BatchIds == {ret.list[i].pattern_id : i \in 1..Len(ret.list)}

InBufferBefore(pid) ==
    \E k \in 1..Len(ret.history_before) : ret.history_before[k] = pid

TraderWorks == "trader_memory" \in memories /\ "trader_memory" \notin ret.bad

\* C7 as stated: a pattern whose id is in the recent-injection buffer is
\* delivered to no channel, and a pattern whose id is not in it is delivered
\* to the trader channel exactly once.
DedupTraderAlways ==
    ret.op = "inject_pattern_batch" =>
        \A pid \in BatchIds :
            IF InBufferBefore(pid)
            THEN DeliveryCount(NewDeliveries, AllChannels, pid) = 0
            ELSE DeliveryCount(NewDeliveries, {"trader_memory"}, pid) = 1

\* C7: a pattern whose id is in the recent-injection buffer is delivered to
\* no channel; a pattern whose id is not in it is delivered to the trader
\* channel exactly once when a trader channel is configured and its
\* add_situations returns, and never otherwise.
DedupTraderWhenConfigured ==
    ret.op = "inject_pattern_batch" =>
        \A pid \in BatchIds :
            IF InBufferBefore(pid)
            THEN DeliveryCount(NewDeliveries, AllChannels, pid) = 0
            ELSE DeliveryCount(NewDeliveries, {"trader_memory"}, pid)
                    = IF TraderWorks THEN 1 ELSE 0

\* two distinct new ids, the buffer holding an unrelated one, both delivered
\* to the trader in one call
DedupTraderWitness ==
    /\ ret.op = "inject_pattern_batch"
    /\ Len(ret.list) = 2
    /\ Cardinality(BatchIds) = 2
    /\ ret.history_before # <<>>
    /\ \A pid \in BatchIds : ~InBufferBefore(pid)
    /\ TraderWorks
    /\ \E i \in 1..Len(NewDeliveries) :
          /\ NewDeliveries[i].channel = "trader_memory"
          /\ Len(NewDeliveries[i].entries) = 2

RECURSIVE EntriesDelivered(_)
EntriesDelivered(log) ==
    IF log = <<>> THEN 0
    ELSE Len(Head(log).entries) + EntriesDelivered(Tail(log))

\* C8 as stated: when one configured channel's add_situations raises,
\* inject_pattern_batch does not raise, the trader channel, if it is another
\* configured channel, still receives every new pattern, and the returned
\* count is the number of memories delivered.
PartialFailureTolerated ==
    ret.op = "inject_pattern_batch" =>
        /\ ~ret.raised
        /\ ret.count = EntriesDelivered(NewDeliveries)
        /\ \A pid \in BatchIds :
              (~InBufferBefore(pid) /\ TraderWorks)
                 => DeliveryCount(NewDeliveries, {"trader_memory"}, pid) = 1

-----------------------------------------------------------------------------
(* Queries of the store.  A result is the sequence of the rows selected,   *)
(* in the order of the ORDER BY; rows with equal keys come in one fixed    *)
(* order.                                                                  *)

Min(a, b) == IF a < b THEN a ELSE b

FirstK(s, k) == SubSeq(s, 1, Min(k, Len(s)))

RECURSIVE OrderedDesc(_, _)
OrderedDesc(ids, key) ==
    IF ids = {} THEN <<>>
    ELSE LET m == CHOOSE x \in ids : \A y \in ids : ~RatLT(key[x], key[y])
         IN  <<m>> \o OrderedDesc(ids \ {m}, key)

RECURSIVE OrderedAsc(_, _)
OrderedAsc(ids, key) ==
    IF ids = {} THEN <<>>
    ELSE LET m == CHOOSE x \in ids : \A y \in ids : ~RatGT(key[x], key[y])
         IN  <<m>> \o OrderedAsc(ids \ {m}, key)

Rows(pt, order) == [i \in 1..Len(order) |-> PatternDict(order[i], pt[order[i]])]

ActiveIds(pt) == {pid \in DOMAIN pt : pt[pid].is_active}

GetTopPatterns(pt, limit, min_trades) ==
    LET ids == {pid \in ActiveIds(pt) : pt[pid].total_trades >= min_trades}
    IN  FirstK(Rows(pt, OrderedDesc(ids, [pid \in ids |-> pt[pid].expectancy])),
               limit)

GetBreakingPatterns(pt, threshold, min_trades) ==
    LET ids == {pid \in ActiveIds(pt) :
                   /\ pt[pid].total_trades >= min_trades
                   /\ RatLT(pt[pid].recent_win_rate, threshold)
                   /\ RatGT(pt[pid].win_rate, <<1, 2>>)}
    IN  Rows(pt, OrderedAsc(ids,
            [pid \in ids |-> RatSub(pt[pid].recent_win_rate, pt[pid].win_rate)]))

\* regime.lower().replace(' ', '_')
RegimeKey(regime) ==
    CASE regime = "Extreme Fear" -> "extreme_fear"
      [] regime = "Extreme Greed" -> "extreme_greed"
      [] regime = "Fear" -> "fear"
      [] regime = "Greed" -> "greed"
      [] regime = "Neutral" -> "neutral"
      [] regime = "Unknown" -> "unknown"
      [] OTHER -> regime

GetRegimePatterns(pt, regime) ==
    LET ids == {pid \in ActiveIds(pt) :
                   pt[pid].components.market_regime = RegimeKey(regime)}
    IN  Rows(pt, OrderedDesc(ids, [pid \in ids |-> pt[pid].expectancy]))

GetHotPatterns(pt, min_improvement) ==
    LET ids == {pid \in ActiveIds(pt) :
                   /\ pt[pid].total_trades >= 10
                   /\ RatGT(pt[pid].recent_win_rate,
                            RatAdd(pt[pid].win_rate, min_improvement))}
    IN  Rows(pt, OrderedDesc(ids,
            [pid \in ids |-> RatSub(pt[pid].recent_win_rate, pt[pid].win_rate)]))

\* deactivate_stale_patterns: the table after the UPDATE
Deactivated(pt, day, days_inactive) ==
    [pid \in DOMAIN pt |->
        IF /\ pt[pid].is_active
           /\ pt[pid].last_traded_date # Null
           /\ pt[pid].last_traded_date[1] < day - days_inactive
        THEN [pt[pid] EXCEPT !.is_active = FALSE]
        ELSE pt[pid]]

-----------------------------------------------------------------------------
(* Analyzer (PatternAnalyzer) and the regime lessons of the injector.      *)

\* the order in which _extract_memory_systems fills the dict
ChannelOrder ==
    <<"trader_memory", "bull_memory", "bear_memory", "risk_manager_memory",
      "invest_judge_memory">>

IsConfigured(channel, configured) == channel \in configured

\* self.memories.items()
ConfiguredOrder(configured) ==
    SelectSeq(ChannelOrder, LAMBDA c : IsConfigured(c, configured))

\* one memory handed to every configured channel, each in its own try block
RECURSIVE DeliveredToAll(_, _, _, _)
DeliveredToAll(channels, bad, entry, log) ==
    IF channels = <<>> THEN log
    ELSE DeliveredToAll(Tail(channels), bad, entry,
            IF Head(channels) \in bad THEN log
            ELSE Append(log, Delivery(Head(channels), <<entry>>)))

\* inject_regime_transition_lessons: the deliveries and the learning log
RegimeLessons(from_regime, to_regime, breaking, emerging, bad, configured, log, events) ==
    [deliveries |->
        DeliveredToAll(ConfiguredOrder(configured), bad,
                       Memory("regime_transition", <<from_regime, to_regime>>),
                       log),
     events |-> Append(events,
                       LearningEvent("regime_transition", breaking \o emerging,
                                     configured))]

\* _prioritize_patterns, one of its three loops
RECURSIVE AppendUnseen(_, _, _)
AppendUnseen(prioritized, list, priority) ==
    IF list = <<>> THEN prioritized
    ELSE LET p == Head(list)
             seen == {prioritized[i].pattern_id : i \in 1..Len(prioritized)}
         IN  AppendUnseen(IF p.pattern_id \in seen THEN prioritized
                          ELSE Append(prioritized,
                                      [pattern_id |-> p.pattern_id,
                                       stats |-> p.stats,
                                       priority |-> priority]),
                          Tail(list), priority)

\* variant of PrioritizePatterns: the whole top list is taken
PrioritizePatternsUncapped(top, breaking, hot) ==
    AppendUnseen(AppendUnseen(AppendUnseen(<<>>, breaking, "critical"),
                              hot, "high"),
                 top, "normal")

\* _prioritize_patterns(top, breaking, hot)
PrioritizePatterns(top, breaking, hot) ==
    AppendUnseen(AppendUnseen(AppendUnseen(<<>>, breaking, "critical"),
                              hot, "high"),
                 FirstK(top, 5), "normal")

\* _analyze_regime_transitions, its query: the regimes with the most
\* entries in the last 7 days; LIMIT 1 keeps one of them
DominantRegimes(pos, day) ==
    LET recent == {i \in 1..Len(pos) : pos[i].entry_date > day - 7}
        count(r) == Cardinality({i \in recent : pos[i].regime_at_entry = r})
    IN  {r \in {pos[i].regime_at_entry : i \in recent} :
            \A q \in {pos[i].regime_at_entry : i \in recent} :
                count(r) >= count(q)}

ObservableRegimes(pos, day) ==
    IF DominantRegimes(pos, day) = {} THEN {Null}
    ELSE {Some(r) : r \in DominantRegimes(pos, day)}

\* truth value of self.last_regime
Truthy(regime) == regime # Null /\ regime # Some("")

\* variant of TransitionDetected: the regimes are not compared
TransitionDetectedUncompared(last, current) == Truthy(last)

\* self.last_regime and current_regime != self.last_regime
TransitionDetected(last, current) == Truthy(last) /\ current # last

WinnerIds(rows) ==
    PatternIds(SelectSeq(rows, LAMBDA p : RatGT(p.stats.win_rate, <<3, 5>>)))

\* _analyze_regime_transitions, the end of its transition branch: the
\* pointer is moved before the dict it returns is built
TransitionReturned(current, breaking, emerging, out) ==
    [last |-> current,
     deliveries |-> out.deliveries,
     events |-> out.events,
     result |-> Some([from_regime |-> current[1],
                      to_regime |-> current[1],
                      patterns_at_risk |-> Len(breaking),
                      patterns_emerging |-> Len(emerging)]),
     raised |-> FALSE,
     observation |-> "found"]

\* _analyze_regime_transitions, its transition branch
RegimeChanged(last, current, breaking, emerging, bad, configured, log, events) ==
    TransitionReturned(current, breaking, emerging,
                       RegimeLessons(last[1], current[1], FirstK(breaking, 5),
                                     FirstK(emerging, 5), bad, configured, log,
                                     events))

\* _analyze_regime_transitions: `current` is what its query returns (Null:
\* no row), `fault` the store call that raises
RegimeAnalysis(pt, last, current, fault, bad, configured, log, events) ==
    LET same == [last |-> last, deliveries |-> log, events |-> events,
                 result |-> Null, raised |-> FALSE, observation |-> "empty"]
    IN  IF fault = "recent_trades"
        THEN [same EXCEPT !.raised = TRUE, !.observation = "none"]
        ELSE IF current = Null THEN same
        ELSE IF TransitionDetected(last, current)
        THEN IF fault = "get_regime_patterns"
             THEN [same EXCEPT !.raised = TRUE, !.observation = "aborted"]
             ELSE RegimeChanged(last, current,
                                WinnerIds(GetRegimePatterns(pt, last[1])),
                                WinnerIds(GetRegimePatterns(pt, current[1])),
                                bad, configured, log, events)
        ELSE [same EXCEPT !.last = current, !.observation = "found"]

NoBatch(history, log, events) ==
    [deliveries |-> log, history |-> history, events |-> events,
     count |-> 0, raised |-> FALSE]

QueriesFail(fault) ==
    fault \in {"get_top_patterns", "get_breaking_patterns", "get_hot_patterns"}

\* run_weekly_analysis, steps 7 and 8 and its return
WeeklyFinished(fault, bad, current, toLearn, batch, regime) ==
    LET reachedCleanup == ~QueriesFail(fault) /\ ~batch.raised /\ ~regime.raised
        cleanupFails == reachedCleanup /\ fault = "deactivate_stale_patterns"
        error == QueriesFail(fault) \/ batch.raised \/ regime.raised
                    \/ cleanupFails
    IN  /\ patterns' = IF reachedCleanup /\ ~cleanupFails
                       THEN Deactivated(patterns, today, 30)
                       ELSE patterns
        /\ deliveries' = regime.deliveries
        /\ injectionHistory' = batch.history
        /\ learningLog' = regime.events
        /\ lastRegime' = regime.last
        /\ ret' = [op |-> "run_weekly_analysis",
                   fault |-> IF error /\ ~batch.raised THEN fault ELSE "none",
                   bad |-> bad, raised |-> FALSE, failed |-> error, error |-> error,
                   patterns_analyzed |-> IF QueriesFail(fault) THEN 0
                                         ELSE Len(toLearn),
                   memories_injected |-> IF batch.raised THEN 0 ELSE batch.count,
                   regime_transition |-> regime.result,
                   observation |-> regime.observation,
                   observed |-> IF regime.observation \in {"found", "aborted"}
                                THEN current ELSE Null,
                   pointer_before |-> lastRegime,
                   events_before |-> Len(learningLog)]
        /\ UNCHANGED <<tradeHistory, closeLog, today, positions, memories,
                       exitCalls, pc, tracker, clock>>

\* run_weekly_analysis, step 6
WeeklyInjected(fault, bad, current, toLearn, batch) ==
    WeeklyFinished(fault, bad, current, toLearn, batch,
        IF ~QueriesFail(fault) /\ ~batch.raised
        THEN RegimeAnalysis(patterns, lastRegime, current, fault, bad, memories,
                            batch.deliveries, batch.events)
        ELSE [last |-> lastRegime, deliveries |-> batch.deliveries,
              events |-> batch.events, result |-> Null, raised |-> FALSE,
              observation |-> "none"])

\* run_weekly_analysis, step 5
WeeklyPrioritized(fault, bad, current, toLearn) ==
    WeeklyInjected(fault, bad, current, toLearn,
        IF QueriesFail(fault) \/ toLearn = <<>>
        THEN NoBatch(injectionHistory, deliveries, learningLog)
        ELSE BatchOutcome(toLearn, "weekly_analysis", bad, memories,
                          injectionHistory, deliveries, learningLog))

\* PatternAnalyzer.run_weekly_analysis(): `fault` is the store call that
\* raises when it is reached, `bad` the channels whose add_situations
\* raises, `current` the row its regime query returns
RunWeeklyAnalysis(fault, bad, current) ==
    /\ current \in ObservableRegimes(positions, today)
    /\ WeeklyPrioritized(fault, bad, current,
          PrioritizePatterns(GetTopPatterns(patterns, 10, 20),
                             GetBreakingPatterns(patterns, <<2, 5>>, 20),
                             GetHotPatterns(patterns, <<1, 10>>)))

Alert(type, pid) == [type |-> type, pattern_id |-> pid]

\* run_daily_check, one critical pattern: the alert and the injection with
\* outcome `out`
AlertInjected(acc, p, out) ==
    [deliveries |-> out.deliveries,
     history |-> out.history,
     events |-> out.events,
     alerts |-> Append(acc.alerts, Alert("critical_breakdown", p.pattern_id)),
     actions |-> IF out.raised THEN acc.actions ELSE acc.actions + 1,
     raised |-> out.raised]

\* run_daily_check, its loop over the critically breaking patterns; an
\* inject_pattern_batch that raises ends it
RECURSIVE CriticalAlerts(_, _, _, _)
CriticalAlerts(list, bad, configured, acc) ==
    IF list = <<>> \/ acc.raised THEN acc
    ELSE IF RatLT(Head(list).stats.recent_win_rate, <<1, 4>>)
    THEN CriticalAlerts(Tail(list), bad, configured,
            AlertInjected(acc, Head(list),
                BatchOutcome(<<Head(list)>>, "critical_alert", bad, configured,
                             acc.history, acc.deliveries, acc.events)))
    ELSE CriticalAlerts(Tail(list), bad, configured, acc)

HotAlerts(list) ==
    LET exceptional ==
            SelectSeq(list, LAMBDA p : RatGT(p.stats.recent_win_rate, <<4, 5>>))
    IN  [i \in 1..Len(exceptional) |->
            Alert("hot_pattern", exceptional[i].pattern_id)]

\* run_daily_check, from its second query on
DailyAlerted(fault, bad, crit) ==
    LET raised == fault = "get_breaking_patterns" \/ crit.raised
                     \/ fault = "get_hot_patterns"
    IN  /\ deliveries' = crit.deliveries
        /\ injectionHistory' = crit.history
        /\ learningLog' = crit.events
        /\ ret' = [op |-> "run_daily_check",
                   fault |-> IF crit.raised THEN "none" ELSE fault,
                   bad |-> bad, raised |-> raised, failed |-> raised, error |-> FALSE,
                   alerts |-> IF raised THEN <<>>
                              ELSE crit.alerts
                                   \o HotAlerts(GetHotPatterns(patterns, <<1, 5>>)),
                   actions_taken |-> IF raised THEN 0 ELSE crit.actions]
        /\ UNCHANGED <<patterns, tradeHistory, closeLog, today, positions,
                       memories, lastRegime, exitCalls, pc, tracker, clock>>

NoAlerts ==
    [deliveries |-> deliveries, history |-> injectionHistory,
     events |-> learningLog, alerts |-> <<>>, actions |-> 0, raised |-> FALSE]

\* PatternAnalyzer.run_daily_check()
RunDailyCheck(fault, bad) ==
    DailyAlerted(fault, bad,
        IF fault = "get_breaking_patterns" THEN NoAlerts
        ELSE CriticalAlerts(GetBreakingPatterns(patterns, <<3, 10>>, 10), bad,
                            memories, NoAlerts))

-----------------------------------------------------------------------------
(* Positions (PositionTracker) and the clock.                              *)

PositionRow(batch, symbol, regime, day) ==
    [batch_id |-> batch, symbol |-> symbol, pattern_id |-> Null,
     regime_at_entry |-> regime, entry_date |-> day, exit_date |-> Null,
     pnl_percent |-> Null]

\* PositionTracker.enter_positions(batch_id, selections), one selection
EnterPositions(batch, symbol, regime) ==
    /\ positions' = Append(positions, PositionRow(batch, symbol, regime, today))
    /\ ret' = [op |-> "enter_positions"]
    /\ UNCHANGED <<patterns, tradeHistory, closeLog, today, injectorVars,
                   lastRegime, exitCalls, pc, tracker, clock>>

\* days pass
AdvanceDay(k) ==
    /\ today' = today + k
    /\ ret' = [op |-> "advance_day"]
    /\ UNCHANGED <<patterns, tradeHistory, closeLog, positions, injectorVars,
                   lastRegime, exitCalls, pc, tracker, clock>>

-----------------------------------------------------------------------------
(* SpecAnalyzer: the weekly analysis and the daily check of one Analyzer   *)
(* over a store with a history, with store calls and channels that fail.   *)

MaxPositions == 2       \* rows of position_tracking
MaxDay == 8             \* last day of the clock
MaxEvents == 2          \* rows of pattern_learning_log

SeedDicts == {HotDict, LosingDict, BreakingDict}
SeedTable ==
    [pid \in {d.pattern_id : d \in SeedDicts} |->
        (CHOOSE d \in SeedDicts : d.pattern_id = pid).stats]
SeedLog ==
    [pid \in {d.pattern_id : d \in SeedDicts} |->
        IF pid = HotDict.pattern_id THEN HotLog
        ELSE IF pid = LosingDict.pattern_id THEN LosingLog
        ELSE BreakingLog]

Regimes == {"fear", "greed"}
DaySteps == {8}
WeeklyFaults ==
    {"none", "get_breaking_patterns", "recent_trades", "get_regime_patterns",
     "deactivate_stale_patterns"}
DailyFaults == {"none", "get_breaking_patterns", "get_hot_patterns"}
AnalyzerFailingChannels == {{}, {"bull_memory"}}

InitAnalyzer ==
    /\ patterns = SeedTable
    /\ tradeHistory = <<>>
    /\ closeLog = SeedLog
    /\ today = 0
    /\ ret = Ret("init", UnknownId, TRUE)
    /\ positions = <<>>
    /\ memories = AllChannels
    /\ deliveries = <<>>
    /\ injectionHistory = <<>>
    /\ learningLog = <<>>
    /\ lastRegime = Null
    /\ exitCalls = <<>>
    /\ pc = "idle"
    /\ tracker = NewTracker
    /\ clock = StartClock

NextAnalyzer ==
    \/ \E r \in Regimes, s \in Symbols :
          /\ Len(positions) < MaxPositions
          /\ EnterPositions(Len(positions) + 1, s, r)
    \/ \E k \in DaySteps : today + k <= MaxDay /\ AdvanceDay(k)
    \/ \E fault \in WeeklyFaults, bad \in AnalyzerFailingChannels,
          current \in ObservableRegimes(positions, today) :
          Len(learningLog) < MaxEvents /\ RunWeeklyAnalysis(fault, bad, current)
    \/ \E fault \in DailyFaults, bad \in AnalyzerFailingChannels :
          Len(learningLog) < MaxEvents /\ RunDailyCheck(fault, bad)

SpecAnalyzer == InitAnalyzer /\ [][NextAnalyzer]_vars

-----------------------------------------------------------------------------
(* Properties of the Analyzer.                                             *)

\* C9 as stated: run_weekly_analysis and run_daily_check never raise, and a
\* failure of a store query or of an injection is reported in the `error`
\* field of what they return.
OrchestrationNeverRaises ==
    ret.op \in {"run_weekly_analysis", "run_daily_check"} =>
        /\ ~ret.raised
        /\ ret.failed => ret.error

RegimeLessonCount(events) ==
    Cardinality({i \in 1..Len(events) :
                    events[i].lesson_type = "regime_transition"})

\* C10: a regime observation that finds no trades leaves the pointer and
\* injects nothing; one that finds trades and returns sets the pointer to
\* the dominant regime it observed, and calls
\* inject_regime_transition_lessons exactly once if the pointer was set and
\* differed from that regime, and not at all otherwise -- so never on the
\* first observation, when the pointer is unset.
RegimePointerTracks ==
    [][ret'.op = "run_weekly_analysis" =>
          LET lessons == RegimeLessonCount(learningLog')
                            - RegimeLessonCount(learningLog)
          IN  /\ ret'.observation = "empty" =>
                    (lastRegime' = lastRegime /\ lessons = 0)
              /\ ret'.observation = "found" =>
                    /\ lastRegime' = ret'.observed
                    /\ lessons = IF lastRegime # Null
                                    /\ lastRegime # ret'.observed
                                 THEN 1 ELSE 0]_vars

\* a weekly analysis has just seen the dominant regime change and injected
\* the lesson
RegimePointerTracksWitness ==
    /\ ret.op = "run_weekly_analysis"
    /\ ret.observation = "found"
    /\ ret.pointer_before # Null
    /\ ret.pointer_before # ret.observed
    /\ lastRegime = ret.observed
    /\ Len(learningLog) > ret.events_before
    /\ learningLog[Len(learningLog)].lesson_type = "regime_transition"

-----------------------------------------------------------------------------
(* The daily pipeline (main): one batch, the position update, and the two  *)
(* passes over the positions closed today.                                 *)

\* inject_tradingagents_compatible_memories for one pattern: the order of
\* its add_situations calls
RealtimePlan(row, pid) ==
    (IF RatGT(row.win_rate, <<3, 5>>)
     THEN <<Delivery("bull_memory", <<Memory("bullish_view", pid)>>),
            Delivery("invest_judge_memory",
                     <<Memory("research_conclusion", pid)>>)>>
     ELSE IF RatLT(row.win_rate, <<9, 20>>)
     THEN <<Delivery("bear_memory", <<Memory("bearish_view", pid)>>),
            Delivery("risk_manager_memory",
                     <<Memory("risk_warning", pid)>>)>>
     ELSE <<>>)
    \o <<Delivery("trader_memory", <<Memory("trading_decision", pid)>>)>>

\* analyze_with_patterns, step 3: the real-time injection for a pattern
\* that exists; a channel that raises ends analyze_with_patterns
RealtimeInjected(pt, pid, configured, bad, log) ==
    IF GetPatternStats(pt, pid) = Null
    THEN [log |-> log, count |-> 0, raised |-> FALSE]
    ELSE BatchDelivered(RealtimePlan(pt[pid], pid), configured, bad,
                        [log |-> log, count |-> 0, raised |-> FALSE])

\* process_batch for one candidate, after classify_trade left the table
\* `pt` and the real-time injection left `out`: track_entry on a BUY,
\* enter_positions, and the UPDATE that tags the position with the pattern
BatchProcessed(pt, pid, out, symbol, regime, decision, tagged) ==
    /\ patterns' = pt
    /\ deliveries' = out.log
    /\ tradeHistory' =
          IF ~out.raised /\ decision = "BUY"
          THEN Append(tradeHistory,
                      TradeRow(pid, Len(positions) + 1, symbol, today))
          ELSE tradeHistory
    /\ positions' =
          IF decision = "BUY"
          THEN Append(positions,
                  [PositionRow(Len(positions) + 1, symbol, regime, today)
                      EXCEPT !.pattern_id = IF ~out.raised /\ tagged
                                            THEN Some(pid) ELSE Null])
          ELSE positions
    /\ tracker' =
          IF ~out.raised /\ decision = "BUY"
          THEN Invalidated(ContextCached(tracker, pt, pid, clock.now), pid)
          ELSE ContextCached(tracker, pt, pid, clock.now)
    /\ ret' = [op |-> "process_batch", pid |-> pid, raised |-> out.raised]

ClassifiedTable(pt, m, rd, day) ==
    IF ClassifyRaises(rd) THEN pt
    ELSE CreatedTable(pt, ClassifiedId(m, rd), ClassifiedComponents(m, rd),
                      day)

BatchAnalyzed(pt, pid, symbol, regime, decision, tagged, bad) ==
    BatchProcessed(pt, pid,
                   RealtimeInjected(pt, pid, memories, bad, deliveries),
                   symbol, regime, decision, tagged)

\* main, the start of a run
StartRun ==
    /\ pc = "idle"
    /\ pc' = "batch"
    /\ exitCalls' = <<>>
    /\ ret' = [op |-> "main"]
    /\ UNCHANGED <<patterns, tradeHistory, closeLog, today, positions,
                   injectorVars, lastRegime, tracker, clock>>

\* TradingAgentsBatchProcessor.process_batch, one candidate
ProcessBatch(m, rd, symbol, regime, decision, tagged, bad) ==
    /\ pc = "batch"
    /\ pc' = "update"
    /\ BatchAnalyzed(ClassifiedTable(patterns, m, rd, today),
                     ClassifiedId(m, rd), symbol, regime, decision, tagged,
                     bad)
    /\ UNCHANGED <<closeLog, today, memories, injectionHistory, learningLog,
                   lastRegime, exitCalls, clock>>

\* _exit_position: UPDATE position_tracking SET exit_date = ..., ...
ExitedRow(row, pnl, day) ==
    [row EXCEPT !.exit_date = Some(day), !.pnl_percent = Some(pnl)]

\* PositionTracker.update_positions(check_exits=True): `exits` gives, for
\* each open position whose exit condition holds, its P&L
UpdatePositions(exits) ==
    /\ pc \in {"batch", "update"}
    /\ pc' = "learn"
    /\ \A i \in 1..Len(positions) :
          positions[i].exit_date # Null => exits[i] = Null
    /\ positions' =
          [i \in 1..Len(positions) |->
              IF exits[i] # Null
              THEN ExitedRow(positions[i], exits[i][1], today)
              ELSE positions[i]]
    /\ ret' = [op |-> "update_positions"]
    /\ UNCHANGED <<patterns, tradeHistory, closeLog, today, injectorVars,
                   lastRegime, exitCalls, tracker, clock>>

\* SELECT * FROM position_tracking WHERE exit_date = date('now') AND
\* pattern_id IS NOT NULL
ClosedToday(pos, day) ==
    SelectSeq(pos, LAMBDA r : r.exit_date = Some(day) /\ r.pattern_id # Null)

\* what the two passes read and write
CloseState(pt, rows, log, dl, events, calls, tr) ==
    [patterns |-> pt, rows |-> rows, log |-> log, deliveries |-> dl,
     events |-> events, calls |-> calls, tracker |-> tr]

ExitCall(pid, batch, symbol) ==
    [pattern_id |-> pid, batch_id |-> batch, symbol |-> symbol]

\* PatternTracker.track_exit(pattern_id, exit_data), on the state `acc`
ExitTracked(acc, pid, batch, symbol, pnl, day) ==
    [acc EXCEPT
        !.rows = ExitWritten(acc.rows, batch, symbol, pnl, day),
        !.patterns = PerformanceUpdated(acc.patterns, pid, pnl, day),
        !.log = Logged(acc.log, acc.patterns, pid, pnl),
        !.calls = Append(acc.calls, ExitCall(pid, batch, symbol)),
        !.tracker = IF UpdateSucceeds(acc.patterns, pid)
                    THEN Invalidated(acc.tracker, pid) ELSE acc.tracker]

\* analyze_closed_position: the outcome was a surprise
Surprising(row, pnl) ==
    \/ RatGT(row.win_rate, <<7, 10>>) /\ ~(pnl > 0)
    \/ RatLT(row.win_rate, <<3, 10>>) /\ pnl > 0 /\ pnl > 3

\* variant of OutcomeInjected: the event names every configured channel
OutcomeInjectedLogsAll(acc, pid, bad, configured) ==
    [acc EXCEPT
        !.deliveries = DeliveredToAll(ConfiguredOrder(configured), bad,
                                      Memory("immediate_outcome", pid),
                                      acc.deliveries),
        !.events = Append(acc.events,
                          LearningEvent("immediate_outcome", <<pid>>,
                                        configured))]

\* inject_single_pattern_outcome
OutcomeInjected(acc, pid, bad, configured) ==
    [acc EXCEPT
        !.deliveries = DeliveredToAll(ConfiguredOrder(configured), bad,
                                      Memory("immediate_outcome", pid),
                                      acc.deliveries),
        !.events = Append(acc.events,
                          LearningEvent("immediate_outcome", <<pid>>,
                                        configured \ bad))]

\* analyze_closed_position, after track_exit left `acc`
ClosedAnalyzed(acc, pid, pnl, bad, configured) ==
    IF GetPatternStats(acc.patterns, pid) = Null THEN acc
    ELSE IF Surprising(acc.patterns[pid], pnl)
    THEN OutcomeInjected(acc, pid, bad, configured)
    ELSE acc

\* close_position_with_pattern(position_data)
ClosedWithPattern(acc, row, day, bad, configured) ==
    ClosedAnalyzed(ExitTracked(acc, row.pattern_id[1], row.batch_id,
                               row.symbol, row.pnl_percent[1], day),
                   row.pattern_id[1], row.pnl_percent[1], bad, configured)

\* main: for pos in closed_positions: close_position_with_learning(pos)
RECURSIVE LearnedFrom(_, _, _, _, _)
LearnedFrom(rows, acc, day, bad, configured) ==
    IF rows = <<>> THEN acc
    ELSE LearnedFrom(Tail(rows),
                     ClosedWithPattern(acc, Head(rows), day, bad, configured),
                     day, bad, configured)

CloseApplied(acc) ==
    /\ patterns' = acc.patterns
    /\ tradeHistory' = acc.rows
    /\ closeLog' = acc.log
    /\ deliveries' = acc.deliveries
    /\ learningLog' = acc.events
    /\ exitCalls' = acc.calls
    /\ tracker' = acc.tracker

\* main, the first pass over the positions closed today
CloseWithLearning(bad) ==
    /\ pc = "learn"
    /\ pc' = "closed"
    /\ CloseApplied(LearnedFrom(ClosedToday(positions, today),
                       CloseState(patterns, tradeHistory, closeLog,
                                  deliveries, learningLog, exitCalls,
                                  tracker),
                       today, bad, memories))
    /\ ret' = [op |-> "close_position_with_learning"]
    /\ UNCHANGED <<today, positions, memories, injectionHistory, lastRegime,
                   clock>>

\* create_hybrid_memories: the trade memory, then the pattern memory
HybridKinds == <<"trade", "pattern_update">>

\* inject_closed_position_memories, its if/elif chain on the agent's name
Tone(channel, pnl) ==
    IF channel = "bull_memory" /\ pnl > 0 THEN "bullish_win"
    ELSE IF channel = "bear_memory" /\ pnl < 0 THEN "bearish_validation"
    ELSE IF channel = "risk_manager_memory" /\ Abs(pnl) > 3 THEN "risk_event"
    ELSE "standard"

HybridMemory(kind, channel, pid, pnl) ==
    [kind |-> kind, tone |-> Tone(channel, pnl), pattern_id |-> pid]

\* inject_closed_position_memories, its two nested loops: every memory to
\* every configured channel, each call in its own try block
RECURSIVE HybridDelivered(_, _, _, _, _, _)
HybridDelivered(kinds, channels, bad, pid, pnl, log) ==
    IF kinds = <<>> THEN log
    ELSE HybridDelivered(Tail(kinds), channels, bad, pid, pnl,
            log \o [i \in 1..Len(SelectSeq(channels, LAMBDA c : c \notin bad))
                    |-> Delivery(
                          SelectSeq(channels, LAMBDA c : c \notin bad)[i],
                          <<HybridMemory(Head(kinds),
                              SelectSeq(channels, LAMBDA c : c \notin bad)[i],
                              pid, pnl)>>)])

\* inject_closed_position_memories(position_data, pattern_stats)
ClosedMemoriesInjected(acc, pid, pnl, bad, configured) ==
    IF GetPatternStats(acc.patterns, pid) = Null THEN acc
    ELSE [acc EXCEPT
            !.deliveries = HybridDelivered(HybridKinds,
                              ConfiguredOrder(configured), bad, pid, pnl,
                              acc.deliveries),
            !.events = Append(acc.events,
                              LearningEvent("position_closed", <<pid>>,
                                            configured))]

\* process_closed_positions, one position
ClosedProcessed(acc, row, day, bad, configured) ==
    ClosedMemoriesInjected(
        ExitTracked(acc, row.pattern_id[1], row.batch_id, row.symbol,
                    row.pnl_percent[1], day),
        row.pattern_id[1], row.pnl_percent[1], bad, configured)

RECURSIVE ProcessedFrom(_, _, _, _, _)
ProcessedFrom(rows, acc, day, bad, configured) ==
    IF rows = <<>> THEN acc
    ELSE ProcessedFrom(Tail(rows),
                       ClosedProcessed(acc, Head(rows), day, bad, configured),
                       day, bad, configured)

\* main, the second pass: process_closed_positions(closed_today)
ProcessClosedPositions(bad) ==
    /\ pc = "closed"
    /\ pc' = "done"
    /\ CloseApplied(ProcessedFrom(ClosedToday(positions, today),
                       CloseState(patterns, tradeHistory, closeLog,
                                  deliveries, learningLog, exitCalls,
                                  tracker),
                       today, bad, memories))
    /\ ret' = [op |-> "process_closed_positions"]
    /\ UNCHANGED <<today, positions, memories, injectionHistory, lastRegime,
                   clock>>

\* the pipeline is run once a day: the next day begins after the run
NextDay(k) ==
    /\ pc = "done"
    /\ pc' = "idle"
    /\ today' = today + k
    /\ ret' = [op |-> "advance_day"]
    /\ UNCHANGED <<patterns, tradeHistory, closeLog, positions, injectorVars,
                   lastRegime, exitCalls, tracker, clock>>

-----------------------------------------------------------------------------
(* SpecMain: runs of the daily pipeline over a store that already holds    *)
(* one pattern with a history.                                             *)

MainTable == [pid \in {LosingDict.pattern_id} |-> LosingDict.stats]
MainLog == [pid \in {LosingDict.pattern_id} |-> LosingLog]
MainMetrics == {Metric(25, 180, 97, 0), Metric(75, 180, 97, 0)}
MainRegimes == {RegimeData(TRUE, <<"fear">>, 35),
                RegimeData(TRUE, NoneLabel, 35)}
MainEntryRegimes == {"fear"}
MainDecisions == {"BUY", "HOLD"}
MainPnl == {0 - 4, 5}
MainFailingChannels == {{}, {"bear_memory"}}
ExitChoices == {Null} \cup {Some(p) : p \in MainPnl}

InitMain ==
    /\ patterns = MainTable
    /\ tradeHistory = <<>>
    /\ closeLog = MainLog
    /\ today = 0
    /\ ret = Ret("init", UnknownId, TRUE)
    /\ positions = <<>>
    /\ memories = AllChannels
    /\ deliveries = <<>>
    /\ injectionHistory = <<>>
    /\ learningLog = <<>>
    /\ lastRegime = Null
    /\ exitCalls = <<>>
    /\ pc = "idle"
    /\ tracker = NewTracker
    /\ clock = StartClock

NextMain ==
    \/ StartRun
    \/ \E m \in MainMetrics, rd \in MainRegimes, s \in Symbols,
          r \in MainEntryRegimes, decision \in MainDecisions,
          tagged \in BOOLEAN, bad \in MainFailingChannels :
          /\ Len(positions) < MaxPositions
          /\ ProcessBatch(m, rd, s, r, decision, tagged, bad)
    \/ \E exits \in [1..Len(positions) -> ExitChoices] :
          UpdatePositions(exits)
    \/ \E bad \in MainFailingChannels : CloseWithLearning(bad)
    \/ \E bad \in MainFailingChannels : ProcessClosedPositions(bad)
    \/ \E k \in DaySteps : today + k <= MaxDay /\ NextDay(k)

SpecMain == InitMain /\ [][NextMain]_vars

-----------------------------------------------------------------------------
(* Properties of the daily pipeline.                                       *)

\* calls of track_exit in this run for the position (batch_id, symbol)
ExitCallsFor(row) ==
    Cardinality({k \in 1..Len(exitCalls) :
                    /\ exitCalls[k].batch_id = row.batch_id
                    /\ exitCalls[k].symbol = row.symbol})

\* closes the store has counted for the pattern since the start
CountedCloses(pid) == patterns[pid].total_trades - MainTable[pid].total_trades

\* closed positions that carry the pattern
ClosedPositions(pid) ==
    Cardinality({i \in 1..Len(positions) :
                    /\ positions[i].pattern_id = Some(pid)
                    /\ positions[i].exit_date # Null})

-----------------------------------------------------------------------------
(* Properties of the daily check and of the weekly list.                   *)

\* the deliveries made by the step that has just been taken
StepDeliveries == SubSeq(deliveries', Len(deliveries) + 1, Len(deliveries'))

\* C11 as stated: for every pattern that run_daily_check flags as a critical
\* breakdown, the same call delivers a warning for that pattern to the
\* trader channel, whatever was injected before the call.
CriticalAlertDelivered ==
    [][(ret'.op = "run_daily_check" /\ ~ret'.raised) =>
          \A i \in 1..Len(ret'.alerts) :
              ret'.alerts[i].type = "critical_breakdown" =>
                  DeliveryCount(StepDeliveries, {"trader_memory"},
                                ret'.alerts[i].pattern_id) >= 1]_vars

\* the statistics the batch carried for `pid`
BatchStats(pid) ==
    (CHOOSE p \in {ret.list[i] : i \in 1..Len(ret.list)} :
        p.pattern_id = pid).stats

\* the audience of a pattern with that win rate, as the routing rule states it
Audience(win_rate) ==
    {"trader_memory"}
    \cup (IF RatGT(win_rate, <<6, 10>>)
          THEN {"bull_memory", "invest_judge_memory"} ELSE {})
    \cup (IF RatLT(win_rate, <<45, 100>>)
          THEN {"bear_memory", "risk_manager_memory"} ELSE {})

\* C12: when inject_pattern_batch returns, every pattern it did not skip has
\* been delivered once to each configured channel of its audience (trader
\* always, bull and judge iff win_rate > 0.60, bear and risk iff
\* win_rate < 0.45, never both groups) and to no other channel, a channel
\* that is not configured raised nothing, and the count returned is the
\* number of memories delivered.
RoutedByWinRate ==
    (ret.op = "inject_pattern_batch" /\ ~ret.raised) =>
        /\ ret.count = EntriesDelivered(NewDeliveries)
        /\ \A i \in 1..Len(NewDeliveries) :
              NewDeliveries[i].channel \in memories
        /\ \A pid \in BatchIds :
              ~InBufferBefore(pid) =>
                  /\ ~({"bull_memory", "bear_memory"}
                          \subseteq Audience(BatchStats(pid).win_rate))
                  /\ \A c \in AllChannels :
                        DeliveryCount(NewDeliveries, {c}, pid)
                           = IF c \in memories
                                /\ c \in Audience(BatchStats(pid).win_rate)
                             THEN 1 ELSE 0

\* a winning and a losing pattern injected in one call that returned, with
\* only the trader and the bull channel configured
RoutedByWinRateWitness ==
    /\ ret.op = "inject_pattern_batch"
    /\ ~ret.raised
    /\ memories = {"trader_memory", "bull_memory"}
    /\ Cardinality(BatchIds) = 2
    /\ \A pid \in BatchIds : ~InBufferBefore(pid)
    /\ \E pid \in BatchIds : RatGT(BatchStats(pid).win_rate, <<6, 10>>)
    /\ \E pid \in BatchIds : RatLT(BatchStats(pid).win_rate, <<45, 100>>)
    /\ ret.count = 3

-----------------------------------------------------------------------------
(* The injector's other paths, called directly: the immediate outcome, the *)
(* regime transition lesson and the closed position memories.              *)

\* the state after one of these calls left `out`
LessonApplied(out) ==
    /\ deliveries' = out.deliveries
    /\ learningLog' = out.events
    /\ UNCHANGED <<patterns, tradeHistory, closeLog, today, positions,
                   memories, injectionHistory, lastRegime, exitCalls, pc,
                   tracker, clock>>

\* PatternMemoryInjector.inject_single_pattern_outcome(pattern_id, outcome)
InjectSinglePatternOutcome(pid, bad) ==
    /\ LessonApplied(OutcomeInjected(
                        CloseState(patterns, tradeHistory, closeLog,
                                   deliveries, learningLog, exitCalls,
                                   tracker),
                        pid, bad, memories))
    /\ ret' = [op |-> "inject_single_pattern_outcome", pid |-> pid,
               bad |-> bad, ok |-> memories \ bad # {}]

\* PatternMemoryInjector.inject_regime_transition_lessons(from, to, ...)
InjectRegimeTransitionLessons(from_regime, to_regime, breaking, emerging, bad) ==
    /\ LessonApplied(RegimeLessons(from_regime, to_regime, breaking, emerging,
                                   bad, memories, deliveries, learningLog))
    /\ ret' = [op |-> "inject_regime_transition_lessons", bad |-> bad,
               breaking |-> breaking, emerging |-> emerging]

\* PatternMemoryInjector.inject_closed_position_memories(position, stats)
InjectClosedPositionMemories(pid, pnl, bad) ==
    /\ Exists(patterns, pid)
    /\ LessonApplied(ClosedMemoriesInjected(
                        CloseState(patterns, tradeHistory, closeLog,
                                   deliveries, learningLog, exitCalls,
                                   tracker),
                        pid, pnl, bad, memories))
    /\ ret' = [op |-> "inject_closed_position_memories", pid |-> pid,
               pnl |-> pnl, bad |-> bad,
               count |-> Len(HybridKinds) * Cardinality(memories \ bad)]

-----------------------------------------------------------------------------
(* SpecLessons: one injector, every path into the channels, over a store   *)
(* with a history; channels may be missing and may fail.                   *)

LessonIds == {HotDict.pattern_id, LosingDict.pattern_id}
LessonLists == {<<HotDict>>, <<HotDict, LosingDict>>}
LessonTypes == {"scheduled"}
LessonPnl == {0 - 4, 5}
LessonFailingChannels == {{}, {"bull_memory"}}

InitLessons ==
    /\ patterns = SeedTable
    /\ tradeHistory = <<>>
    /\ closeLog = SeedLog
    /\ today = 0
    /\ ret = Ret("init", UnknownId, TRUE)
    /\ positions = <<>>
    /\ memories \in ChannelConfigs
    /\ deliveries = <<>>
    /\ injectionHistory = <<>>
    /\ learningLog = <<>>
    /\ lastRegime = Null
    /\ exitCalls = <<>>
    /\ pc = "idle"
    /\ tracker = NewTracker
    /\ clock = StartClock

NextLessons ==
    \/ \E list \in LessonLists, t \in LessonTypes,
          bad \in LessonFailingChannels :
          Len(learningLog) < MaxEvents /\ InjectPatternBatch(list, t, bad)
    \/ \E pid \in LessonIds, bad \in LessonFailingChannels :
          Len(learningLog) < MaxEvents /\ InjectSinglePatternOutcome(pid, bad)
    \/ \E bad \in LessonFailingChannels :
          /\ Len(learningLog) < MaxEvents
          /\ InjectRegimeTransitionLessons("fear", "greed",
                                           <<LosingDict.pattern_id>>,
                                           <<HotDict.pattern_id>>, bad)
    \/ \E pid \in LessonIds, pnl \in LessonPnl,
          bad \in LessonFailingChannels :
          /\ Len(learningLog) < MaxEvents
          /\ InjectClosedPositionMemories(pid, pnl, bad)

SpecLessons == InitLessons /\ [][NextLessons]_vars

-----------------------------------------------------------------------------
(* Properties of the injector's other paths.                               *)

\* the channels the step that has just been taken delivered to
StepChannels == {StepDeliveries[i].channel : i \in 1..Len(StepDeliveries)}

\* C13: inject_single_pattern_outcome(p, outcome) delivers one lesson about
\* p to every configured channel whose add_situations returns, whether or
\* not p is in the recent-injection buffer and whatever its win rate, a
\* channel that fails stops nothing, the buffer is left as it was, and
\* exactly one Learning Event of type immediate_outcome for p is appended,
\* whose channels are those that accepted the lesson.
OutcomeReachesAll ==
    [][ret'.op = "inject_single_pattern_outcome" =>
          /\ injectionHistory' = injectionHistory
          /\ StepChannels = memories \ ret'.bad
          /\ \A c \in memories \ ret'.bad :
                /\ DeliveryCount(StepDeliveries, {c}, ret'.pid) = 1
                /\ EntriesDelivered(StepDeliveries)
                      = Cardinality(memories \ ret'.bad)
          /\ learningLog' =
                Append(learningLog,
                       [lesson_type |-> "immediate_outcome",
                        pattern_ids_affected |-> <<ret'.pid>>,
                        injected_to_memories |-> memories \ ret'.bad])]_vars

\* an outcome for a pattern that is in the buffer has just been delivered
\* past a failing channel to the channels after it
OutcomeReachesAllWitness ==
    /\ ret.op = "inject_single_pattern_outcome"
    /\ \E k \in 1..Len(injectionHistory) : injectionHistory[k] = ret.pid
    /\ memories = AllChannels
    /\ ret.bad = {"bull_memory"}
    /\ Len(deliveries) >= 4
    /\ deliveries[Len(deliveries)].channel = "invest_judge_memory"
    /\ deliveries[Len(deliveries)].entries[1].kind = "immediate_outcome"
    /\ learningLog[Len(learningLog)].injected_to_memories
          = AllChannels \ {"bull_memory"}

-----------------------------------------------------------------------------
(* SpecPrioritize: _prioritize_patterns applied to lists of rows.  A list  *)
(* is the result of a query on trade_patterns, so it holds a pattern_id at *)
(* most once; no row is both breaking and hot.                             *)

MaxShort == 2           \* rows of the breaking list and of the hot list

ListedId(n) == <<"pattern", n>>
Listing(numbers) ==
    [i \in 1..Len(numbers) |-> PatternDict(ListedId(numbers[i]), HotDict.stats)]

\* the sequences of at most `k` distinct elements of `S`
RECURSIVE Arrangements(_, _)
Arrangements(S, k) ==
    IF k = 0 THEN {<<>>}
    ELSE Arrangements(S, k - 1)
         \cup {Append(a, x) : a \in {b \in Arrangements(S, k - 1) :
                                        Len(b) = k - 1},
                              x \in S}
Distinct(a) == \A i, j \in 1..Len(a) : a[i] = a[j] => i = j
Range(a) == {a[i] : i \in 1..Len(a)}

TopOrders ==
    {<<>>, <<3, 1, 2>>, <<1, 2, 3, 4, 5, 6, 7>>, <<7, 6, 5, 4, 3, 2, 1>>}
BreakingOrders == {a \in Arrangements({1, 6, 7}, MaxShort) : Distinct(a)}
HotOrders == {a \in Arrangements({2, 5, 7}, MaxShort) : Distinct(a)}

\* PatternAnalyzer._prioritize_patterns(top, breaking, hot)
Prioritize(top, breaking, hot) ==
    /\ ret' = [op |-> "_prioritize_patterns", top |-> top,
               breaking |-> breaking, hot |-> hot,
               result |-> PrioritizePatterns(top, breaking, hot)]
    /\ UNCHANGED <<patterns, tradeHistory, closeLog, today, positions,
                   injectorVars, lastRegime, exitCalls, pc, tracker, clock>>

NextPrioritize ==
    \E t \in TopOrders, b \in BreakingOrders, h \in HotOrders :
        /\ Range(b) \cap Range(h) = {}
        /\ Prioritize(Listing(t), Listing(b), Listing(h))

SpecPrioritize == InitAnalyzer /\ [][NextPrioritize]_vars

\* the pattern ids of a list of rows
IdsOf(list) == {list[i].pattern_id : i \in 1..Len(list)}

PriorityRank(priority) ==
    CASE priority = "critical" -> 1
      [] priority = "high" -> 2
      [] priority = "normal" -> 3

\* C14: the list _prioritize_patterns returns holds each pattern_id at most
\* once, holds the breaking patterns, the hot patterns and the first 5 of
\* the top patterns and no other, lists critical before high before normal,
\* and labels each entry by the first of the lists breaking, hot, top it
\* occurs in.
PrioritizedByPrecedence ==
    ret.op = "_prioritize_patterns" =>
        LET r == ret.result
            first5 == IdsOf(SubSeq(ret.top, 1,
                                   IF Len(ret.top) < 5 THEN Len(ret.top) ELSE 5))
        IN  /\ \A i, j \in 1..Len(r) :
                  r[i].pattern_id = r[j].pattern_id => i = j
            /\ IdsOf(r) = IdsOf(ret.breaking) \cup IdsOf(ret.hot) \cup first5
            /\ \A i, j \in 1..Len(r) :
                  i < j => PriorityRank(r[i].priority)
                              <= PriorityRank(r[j].priority)
            /\ \A i \in 1..Len(r) :
                  r[i].priority =
                     IF r[i].pattern_id \in IdsOf(ret.breaking) THEN "critical"
                     ELSE IF r[i].pattern_id \in IdsOf(ret.hot) THEN "high"
                     ELSE "normal"

\* seven top patterns, of which the sixth is also breaking, the seventh is
\* in no other list, and one of the first five is also hot
PrioritizedByPrecedenceWitness ==
    /\ ret.op = "_prioritize_patterns"
    /\ Len(ret.top) = 7
    /\ ret.top[6].pattern_id \in IdsOf(ret.breaking)
    /\ ret.top[7].pattern_id \notin IdsOf(ret.result)
    /\ \E i \in 1..5 : ret.top[i].pattern_id \in IdsOf(ret.hot)
    /\ Len(ret.result) = 6

-----------------------------------------------------------------------------
(* Properties of the learning log.                                         *)

\* the events the step that has just been taken appended
StepEvents == SubSeq(learningLog', Len(learningLog) + 1, Len(learningLog'))

\* C15 as stated: every call of inject_pattern_batch, whatever the buffer
\* holds and whichever channels are configured, appends exactly one Learning
\* Event, which summarizes that batch.
BatchAlwaysLogged ==
    [][ret'.op = "inject_pattern_batch" =>
          /\ Len(StepEvents) = 1
          /\ StepEvents[1].pattern_ids_affected = PatternIds(ret'.list)]_vars

\* the pattern ids of the memories the step that has just been taken
\* delivered
StepIds ==
    UNION {{StepDeliveries[i].entries[j].pattern_id :
               j \in 1..Len(StepDeliveries[i].entries)} :
           i \in 1..Len(StepDeliveries)}

\* C16 as stated: a Learning Event written by inject_pattern_batch,
\* inject_regime_transition_lessons or inject_closed_position_memories names
\* as receiving channels exactly the channels the call delivered to, and
\* (for the batch and the closed position) as affected patterns exactly the
\* patterns whose lesson the call delivered.
EventsRecordDeliveries ==
    [][ret'.op \in {"inject_pattern_batch", "inject_regime_transition_lessons",
                    "inject_closed_position_memories"} =>
          \A k \in 1..Len(StepEvents) :
              /\ StepEvents[k].injected_to_memories = StepChannels
              /\ ret'.op # "inject_regime_transition_lessons" =>
                    Range(StepEvents[k].pattern_ids_affected) = StepIds]_vars


CanonicalLessonTypes ==
    {"scheduled", "critical_alert", "immediate_outcome", "regime_transition",
     "position_closed"}

(* C17: every step of the weekly analysis and of the daily check leaves the *)
(* events already in the learning log as they were, in place, and every    *)
(* event it appends carries one of the five lesson types scheduled,        *)
(* critical_alert, immediate_outcome, regime_transition, position_closed.  *)
LessonTypesCanonical ==
    [][/\ Len(learningLog') >= Len(learningLog)
       /\ SubSeq(learningLog', 1, Len(learningLog)) = learningLog
       /\ \A k \in 1..Len(StepEvents) :
             StepEvents[k].lesson_type \in CanonicalLessonTypes]_vars

-----------------------------------------------------------------------------
(* SpecRegime: the regime detector's label handed to the classifier.       *)

\* REGIME_THRESHOLDS, in the order of the dict
RegimeThresholds ==
    <<[regime |-> "extreme_fear", min_val |-> 0, max_val |-> 25],
      [regime |-> "fear", min_val |-> 25, max_val |-> 45],
      [regime |-> "neutral", min_val |-> 45, max_val |-> 55],
      [regime |-> "greed", min_val |-> 55, max_val |-> 75],
      [regime |-> "extreme_greed", min_val |-> 75, max_val |-> 100]>>

\* _interpret_regime: the first regime whose range holds the value
InterpretedRegime(fear_greed_value) ==
    LET hits == {k \in 1..Len(RegimeThresholds) :
                    /\ RegimeThresholds[k].min_val <= fear_greed_value
                    /\ fear_greed_value < RegimeThresholds[k].max_val}
    IN  IF hits = {} THEN "neutral"
        ELSE RegimeThresholds[CHOOSE k \in hits :
                                 \A j \in hits : k <= j].regime

CanonicalRegimes == {"extreme_fear", "fear", "neutral", "greed",
                     "extreme_greed"}

\* the words of a regime's name
RegimeWords(regime) ==
    CASE regime = "extreme_fear" -> <<"extreme", "fear">>
      [] regime = "extreme_greed" -> <<"extreme", "greed">>
      [] OTHER -> <<regime>>

\* the label of a regime, its words joined by a separator
RegimeLabel(regime, sep) ==
    LET w == RegimeWords(regime)
    IN  IF Len(w) = 1 THEN w ELSE <<w[1], sep, w[2]>>

CapitalWord(w) ==
    CASE w = "extreme" -> "Extreme"
      [] w = "fear" -> "Fear"
      [] w = "greed" -> "Greed"
      [] w = "neutral" -> "Neutral"
      [] OTHER -> w

Capitalised(label) == [i \in 1..Len(label) |-> CapitalWord(label[i])]

Separators == {"_", " "}
SentimentValues == {0, 10, 25, 26, 45, 46, 55, 56, 75, 76, 100}
PlainLabels ==
    {RegimeLabel(r, sep) : r \in CanonicalRegimes, sep \in Separators}
SuppliedLabels == PlainLabels \cup {Capitalised(l) : l \in PlainLabels}

\* _classify_regime called with a regime dict
ClassifyRegimeCall(source, rd) ==
    /\ ret' = [op |-> "_classify_regime", source |-> source,
               regime_data |-> rd, result |-> ClassifyRegime(rd)]
    /\ UNCHANGED <<patterns, tradeHistory, closeLog, today, positions,
                   lastRegime, injectorVars, exitCalls, pc, tracker, clock>>

NextRegime ==
    \/ \E fg \in SentimentValues :
          ClassifyRegimeCall("detector",
              RegimeData(TRUE, RegimeLabel(InterpretedRegime(fg), "_"), fg))
    \/ \E label \in SuppliedLabels, fg \in SentimentValues :
          ClassifyRegimeCall("label", RegimeData(TRUE, label, fg))
    \/ \E fg \in SentimentValues :
          ClassifyRegimeCall("value", RegimeData(FALSE, NoneLabel, fg))

SpecRegime == Init /\ [][NextRegime]_vars

\* the canonical regimes a supplied label names, whatever its separator and
\* its capitals
NamedBy(label) ==
    {r \in CanonicalRegimes :
        \E sep \in Separators : Lower(label) = RegimeLabel(r, sep)}

(* C18: when the regime dict carries a label naming one of the five        *)
(* canonical regimes, with an underscore or with a space, the regime       *)
(* component the classifier returns is that regime, whatever the raw       *)
(* sentiment value in the dict.                                            *)
LabelDecidesRegime ==
    (ret.op = "_classify_regime" /\ ret.regime_data.has_regime)
        => \A r \in NamedBy(ret.regime_data.regime) : ret.result = r

-----------------------------------------------------------------------------
(* SpecContext: one tracker answering get_pattern_context while the clock  *)
(* advances, patterns are created and trades close.                        *)

\* PatternTracker.get_pattern_context(pattern_id)
GetPatternContext(pid) ==
    /\ tracker' = ContextCached(tracker, patterns, pid, clock.now)
    /\ ret' = [op |-> "get_pattern_context", pid |-> pid,
               context |-> ContextReturned(tracker, patterns, pid, clock.now),
               from_cache |-> CacheHit(tracker, pid, clock.now),
               cached_age |->
                   IF pid \in DOMAIN tracker.cache
                   THEN Some(clock.now - tracker.cache[pid].timestamp)
                   ELSE Null]
    /\ UNCHANGED <<patterns, tradeHistory, closeLog, today, positions,
                   lastRegime, injectorVars, exitCalls, pc, clock>>

\* time passes between two calls
Tick(d) ==
    /\ clock.ticks < MaxTicks
    /\ clock' = [now |-> clock.now + d, ticks |-> clock.ticks + 1]
    /\ ret' = [op |-> "tick"]
    /\ UNCHANGED <<patterns, tradeHistory, closeLog, today, positions,
                   lastRegime, injectorVars, exitCalls, pc, tracker>>

Ticks == {150, 3700, SecondsPerDay}
NewComponents == Components("bounce", "neutral", "low", "neutral")
NewId == PatternId(NewComponents)
ContextIds == {HotDict.pattern_id, NewId}
ContextPnl == {0 - 4, 5}
SeedCloses == TotalCloses(SeedLog, DOMAIN SeedLog)

InitContext ==
    /\ patterns = SeedTable
    /\ tradeHistory = <<>>
    /\ closeLog = SeedLog
    /\ today = 0
    /\ ret = Ret("init", UnknownId, TRUE)
    /\ positions = <<>>
    /\ memories = AllChannels
    /\ deliveries = <<>>
    /\ injectionHistory = <<>>
    /\ learningLog = <<>>
    /\ lastRegime = Null
    /\ exitCalls = <<>>
    /\ pc = "idle"
    /\ tracker = NewTracker
    /\ clock = StartClock

NextContext ==
    \/ \E pid \in ContextIds : GetPatternContext(pid)
    \/ \E d \in Ticks : Tick(d)
    \/ CreatePattern(NewId, NewComponents)
    \/ \E pid \in ContextIds, pnl \in ContextPnl :
          /\ Closes < SeedCloses + MaxContextCloses
          /\ TrackExit(pid, "b1", "AAPL", pnl)
    \/ \E pid \in ContextIds, pnl \in ContextPnl :
          /\ Closes < SeedCloses + MaxContextCloses
          /\ UpdatePatternPerformance(pid, pnl)

SpecContext == InitContext /\ [][NextContext]_vars

\* the trades the store has recorded for a pattern
RecordedTrades(pt, pid) ==
    IF Exists(pt, pid) THEN pt[pid].total_trades ELSE 0

(* C19: get_pattern_context for a pattern with no recorded trade, absent   *)
(* from the store or created and never traded, returns the context with    *)
(* exists = FALSE and the recommendation "No historical data for this      *)
(* pattern".                                                               *)
NoTradesNoContext ==
    (ret.op = "get_pattern_context" /\ RecordedTrades(patterns, ret.pid) = 0)
        => ret.context = NoDataContext(ret.pid)

(* C20: get_pattern_context returns a cached context only if the entry is  *)
(* younger than 300 seconds: whenever the entry for the pattern is 300     *)
(* seconds old or older, however much older, the context returned is the   *)
(* one built from the store and not the cached one.                        *)
CacheHonoursTtl ==
    (/\ ret.op = "get_pattern_context"
     /\ ret.cached_age # Null
     /\ ret.cached_age[1] >= CacheTimeout)
        => /\ ~ret.from_cache
           /\ ret.context = FreshContext(patterns, ret.pid)

-----------------------------------------------------------------------------
(* SpecStale: the store as days pass, patterns are created, trades close,  *)
(* stale patterns are deactivated and the ranking queries are asked.       *)

MaxStaleDay == 12       \* last day of the clock in the stale specification
MaxStaleCloses == 1     \* trade closes in the stale specification

\* PatternDatabase.deactivate_stale_patterns(days_inactive)
DeactivateStalePatterns(days_inactive) ==
    /\ patterns' = Deactivated(patterns, today, days_inactive)
    /\ ret' = [op |-> "deactivate_stale_patterns", days |-> days_inactive,
               deactivated |->
                   Cardinality(ActiveIds(patterns)
                               \ ActiveIds(Deactivated(patterns, today,
                                                       days_inactive)))]
    /\ UNCHANGED <<tradeHistory, closeLog, today, positions, lastRegime,
                   injectorVars, exitCalls, pc, tracker, clock>>

RankingQueries ==
    {"get_top_patterns", "get_breaking_patterns", "get_regime_patterns",
     "get_hot_patterns"}

\* the four ranking queries, with the arguments run_weekly_analysis and
\* the regime report give them
Ranked(query, pt) ==
    CASE query = "get_top_patterns" -> GetTopPatterns(pt, 10, 20)
      [] query = "get_breaking_patterns" ->
            GetBreakingPatterns(pt, <<2, 5>>, 20)
      [] query = "get_regime_patterns" -> GetRegimePatterns(pt, "Greed")
      [] query = "get_hot_patterns" -> GetHotPatterns(pt, <<1, 10>>)

RankingQuery(query) ==
    /\ ret' = [op |-> query, rows |-> Ranked(query, patterns)]
    /\ UNCHANGED <<patterns, tradeHistory, closeLog, today, positions,
                   lastRegime, injectorVars, exitCalls, pc, tracker, clock>>

\* get_pattern_stats(pattern_id)
StatsQuery(pid) ==
    /\ ret' = [op |-> "get_pattern_stats", pid |-> pid,
               stats |-> GetPatternStats(patterns, pid)]
    /\ UNCHANGED <<patterns, tradeHistory, closeLog, today, positions,
                   lastRegime, injectorVars, exitCalls, pc, tracker, clock>>

StaleDays == {10}
StaleSteps == {6}
StaleIds == {HotDict.pattern_id, NewId}

StalePnl == {5}

StaleCreates == {PatternDict(NewId, NewComponents),
                 PatternDict(HotDict.pattern_id, HotComponents)}

NextStale ==
    \/ \E k \in StaleSteps : today + k <= MaxStaleDay /\ AdvanceDay(k)
    \/ \E c \in StaleCreates : CreatePattern(c.pattern_id, c.stats)
    \/ ClassifyTrade(Metric(75, 180, 97, 0), RegimeData(TRUE, <<"greed">>, 65))
    \/ /\ Len(tradeHistory) < MaxRows
       /\ TrackEntry(HotDict.pattern_id, "b1", "AAPL")
    \/ \E pid \in StaleIds, pnl \in StalePnl :
          /\ Closes < SeedCloses + MaxStaleCloses
          /\ TrackExit(pid, "b1", "AAPL", pnl)
    \/ \E pid \in StaleIds, pnl \in StalePnl :
          /\ Closes < SeedCloses + MaxStaleCloses
          /\ UpdatePatternPerformance(pid, pnl)
    \/ \E days \in StaleDays : DeactivateStalePatterns(days)
    \/ \E query \in RankingQueries : RankingQuery(query)
    \/ \E pid \in StaleIds : StatsQuery(pid)

SpecStale == InitContext /\ [][NextStale]_vars

\* no trade of the pattern closed within the last `days` days
NoTradeWithin(row, day, days) ==
    \/ row.last_traded_date = Null
    \/ row.last_traded_date[1] < day - days

(* C21: after deactivate_stale_patterns(days) every pattern without a      *)
(* trade in the last `days` days is inactive; each ranking query returns   *)
(* active patterns only; no step removes a pattern from the store, and     *)
(* get_pattern_stats returns the row of a deactivated pattern.             *)
StaleInactiveAndKept ==
    [][/\ ret'.op = "deactivate_stale_patterns" =>
             \A pid \in DOMAIN patterns' :
                 NoTradeWithin(patterns'[pid], today', ret'.days)
                     => ~patterns'[pid].is_active
       /\ ret'.op \in RankingQueries =>
             \A k \in 1..Len(ret'.rows) :
                 patterns'[ret'.rows[k].pattern_id].is_active
       /\ DOMAIN patterns \subseteq DOMAIN patterns'
       /\ (ret'.op = "get_pattern_stats" /\ Exists(patterns', ret'.pid))
             => ret'.stats = Some(patterns'[ret'.pid])]_vars

-----------------------------------------------------------------------------
(* Properties of the closed-position memories.                             *)

\* the deliveries of the step made to `channel` of a memory of `kind` in
\* `tone`
ToneCount(log, channel, kind, tone) ==
    Cardinality({i \in 1..Len(log) :
        /\ log[i].channel = channel
        /\ \E j \in 1..Len(log[i].entries) :
              /\ log[i].entries[j].kind = kind
              /\ log[i].entries[j].tone = tone})

(* C22: inject_closed_position_memories delivers the trade memory and the  *)
(* pattern memory in the standard tone to every configured channel that    *)
(* accepts them, whatever the P&L; the bullish tone goes to the bull       *)
(* channel only and only when P&L > 0, the bearish tone to the bear        *)
(* channel only and only when P&L < 0, the risk tone to the risk channel   *)
(* only and only when |P&L| > 3.                                           *)
BasePairToEveryChannel ==
    [][ret'.op = "inject_closed_position_memories" =>
          /\ \A c \in memories \ ret'.bad :
                \A k \in 1..Len(HybridKinds) :
                    ToneCount(StepDeliveries, c, HybridKinds[k],
                              "standard") >= 1
          /\ \A c \in memories : \A k \in 1..Len(HybridKinds) :
                /\ ToneCount(StepDeliveries, c, HybridKinds[k],
                             "bullish_win") >= 1
                      => c = "bull_memory" /\ ret'.pnl > 0
                /\ ToneCount(StepDeliveries, c, HybridKinds[k],
                             "bearish_validation") >= 1
                      => c = "bear_memory" /\ ret'.pnl < 0
                /\ ToneCount(StepDeliveries, c, HybridKinds[k],
                             "risk_event") >= 1
                      => c = "risk_manager_memory" /\ Abs(ret'.pnl) > 3]_vars

-----------------------------------------------------------------------------
(* SpecRecommend: the two recommendation builders applied to statistics a  *)
(* row of the store can hold.  P&L, and so expectancy, is in percentage    *)
(* points, as _exit_position computes it; win rates and momentum are       *)
(* fractions.                                                              *)

RecommendTrades == {10, 20, 50}
RecommendRecent == {<<3, 10>>, <<1, 2>>, <<3, 4>>}
RecommendMomentum == {<<0 - 1, 5>>, <<0 - 1, 10>>, <<1, 20>>, <<1, 5>>}
RecommendExpectancy == {<<0 - 2, 1>>, <<0 - 1, 200>>, <<1, 1>>, <<3, 1>>}

\* the columns of a row the builders read; momentum_score is
\* recent_win_rate - win_rate
StatsOf(total_trades, recent, momentum, expectancy) ==
    [total_trades |-> total_trades,
     confidence_level |-> ConfidenceLevel(total_trades),
     win_rate |-> RatSub(recent, momentum), recent_win_rate |-> recent,
     momentum_score |-> momentum, expectancy |-> expectancy]

RecommendStats ==
    {StatsOf(t, r, m, e) : t \in RecommendTrades, r \in RecommendRecent,
                           m \in RecommendMomentum, e \in RecommendExpectancy}

\* PatternTracker._generate_recommendation(stats)
GenerateRecommendationCall(stats) ==
    /\ ret' = [op |-> "_generate_recommendation", stats |-> stats,
               result |-> GenerateRecommendation(stats)]
    /\ UNCHANGED <<patterns, tradeHistory, closeLog, today, positions,
                   lastRegime, injectorVars, exitCalls, pc, tracker, clock>>

\* _build_recommendation: the prefix chosen by the confidence level
Strength(pattern) ==
    IF pattern.confidence_level = "low" THEN "LIMITED DATA WARNING"
    ELSE IF pattern.confidence_level = "high" THEN "HIGH CONFIDENCE"
    ELSE ""

\* _build_recommendation: the text chosen by the performance, by the
\* advice it gives
RecommendationTier(pattern) ==
    IF RatGT(pattern.win_rate, <<65, 100>>)
       /\ RatGT(pattern.recent_win_rate, <<7, 10>>)
    THEN "INCREASE CONVICTION"
    ELSE IF RatGT(pattern.win_rate, <<55, 100>>)
            /\ RatGT(pattern.momentum_score, <<5, 100>>)
         THEN "POSITIVE EDGE"
    ELSE IF RatLT(pattern.win_rate, <<4, 10>>)
            \/ RatLT(pattern.recent_win_rate, <<35, 100>>)
         THEN "UNDERPERFORMING"
    ELSE IF RatLT(pattern.momentum_score, <<0 - 15, 100>>)
         THEN "DETERIORATION"
    ELSE "NEUTRAL"

\* PatternMemoryInjector._build_recommendation(pattern)
BuildRecommendation(pattern) ==
    [strength |-> Strength(pattern), tier |-> RecommendationTier(pattern)]

\* format_pattern_as_memory(pattern_data): the recommendation of the pair
BuildRecommendationCall(stats) ==
    /\ ret' = [op |-> "_build_recommendation", stats |-> stats,
               result |-> BuildRecommendation(stats)]
    /\ UNCHANGED <<patterns, tradeHistory, closeLog, today, positions,
                   lastRegime, injectorVars, exitCalls, pc, tracker, clock>>

NextRecommend ==
    \/ \E stats \in RecommendStats : GenerateRecommendationCall(stats)
    \/ \E stats \in RecommendStats : BuildRecommendationCall(stats)

SpecRecommend == Init /\ [][NextRecommend]_vars

\* the rule of precedence as stated for get_pattern_context, with 2% and
\* -1% in the percentage points expectancy is kept in
StatedRecommendation(stats) ==
    IF stats.total_trades < 20 THEN "Low confidence"
    ELSE IF RatGT(stats.recent_win_rate, <<7, 10>>)
            /\ RatGT(stats.momentum_score, RatZero)
         THEN "HOT pattern"
    ELSE IF RatLT(stats.recent_win_rate, <<35, 100>>) THEN "COLD pattern"
    ELSE IF RatGT(stats.expectancy, <<2, 1>>) THEN "Profitable pattern"
    ELSE IF RatLT(stats.expectancy, <<0 - 1, 1>>) THEN "Losing pattern"
    ELSE "Neutral pattern"

(* C23: the recommendation of get_pattern_context is the first that        *)
(* applies of: fewer than 20 trades, limited data; recent win rate above   *)
(* 70% with momentum above 0, hot; recent win rate below 35%, cold;        *)
(* expectancy above 2%, profitable; expectancy below -1%, losing;          *)
(* otherwise neutral.                                                      *)
RecommendationByPrecedence ==
    ret.op = "_generate_recommendation"
        => ret.result = StatedRecommendation(ret.stats)

\* the rule of precedence as stated for format_pattern_as_memory
StatedTier(stats) ==
    IF RatGT(stats.win_rate, <<65, 100>>) /\ stats.confidence_level = "high"
    THEN "INCREASE CONVICTION"
    ELSE IF RatGT(stats.win_rate, <<55, 100>>)
            /\ RatGT(stats.momentum_score, <<5, 100>>)
         THEN "POSITIVE EDGE"
    ELSE IF RatLT(stats.win_rate, <<4, 10>>)
            \/ RatLT(stats.recent_win_rate, <<35, 100>>)
         THEN "UNDERPERFORMING"
    ELSE IF RatLT(stats.momentum_score, <<0 - 15, 100>>)
         THEN "DETERIORATION"
    ELSE "NEUTRAL"

(* C24: format_pattern_as_memory picks its recommendation by the first     *)
(* that applies of: win rate above 0.65 with high confidence, increase     *)
(* conviction; win rate above 0.55 with momentum above 0.05, positive      *)
(* edge; win rate below 0.40 or recent win rate below 0.35,                *)
(* underperforming; momentum below -0.15, deteriorating; otherwise         *)
(* neutral.  The increase-conviction text is given to high-confidence      *)
(* patterns only.                                                          *)
TierByPrecedence ==
    ret.op = "_build_recommendation"
        => /\ ret.result.tier = StatedTier(ret.stats)
           /\ ret.result.tier = "INCREASE CONVICTION"
                 => ret.stats.confidence_level = "high"

-----------------------------------------------------------------------------
(* Properties of the trade history.                                        *)

\* the open rows of a batch and symbol
OpenRows(rows, batch, symbol) ==
    {i \in 1..Len(rows) :
        /\ rows[i].batch_id = batch
        /\ rows[i].symbol = symbol
        /\ rows[i].exit_date = Null}

(* C25: a row of the trade history is created with null exit fields, they  *)
(* are written only by a track_exit, a row whose exit fields are written   *)
(* is never written again, and no batch and symbol has two open rows.      *)
ExitWrittenOnce ==
    [][/\ Len(tradeHistory') >= Len(tradeHistory)
       /\ \A i \in 1..Len(tradeHistory) :
             /\ tradeHistory[i].exit_date # Null
                   => tradeHistory'[i] = tradeHistory[i]
             /\ (tradeHistory[i].exit_date = Null
                 /\ tradeHistory'[i].exit_date # Null)
                   => ret'.op = "track_exit"
       /\ \A i \in (Len(tradeHistory) + 1)..Len(tradeHistory') :
             /\ tradeHistory'[i].exit_date = Null
             /\ tradeHistory'[i].pnl_percent = Null
       /\ \A i \in 1..Len(tradeHistory') :
             Cardinality(OpenRows(tradeHistory', tradeHistory'[i].batch_id,
                                  tradeHistory'[i].symbol)) <= 1]_vars

-----------------------------------------------------------------------------
(* Properties of a young pattern.                                          *)

HotImprovements == {RatZero, <<1, 10>>}
BreakingThresholds == {<<3, 10>>, <<2, 5>>, <<1, 2>>}
QueryMinTrades == {0, 10, 20}

(* C26: a pattern built by trade closes on a new record has, while it has  *)
(* at most 20 trades, a recent win rate equal to its win rate and a        *)
(* momentum of 0; get_hot_patterns with a minimum improvement of 0 or more *)
(* and get_breaking_patterns with a threshold of at most 0.50 do not       *)
(* return it, whatever the minimum number of trades.                       *)
YoungPatternNeverRanked ==
    \A pid \in DOMAIN patterns :
        patterns[pid].total_trades <= RecentWindow =>
            /\ patterns[pid].recent_win_rate = patterns[pid].win_rate
            /\ patterns[pid].momentum_score = RatZero
            /\ \A mi \in HotImprovements :
                  \A k \in 1..Len(GetHotPatterns(patterns, mi)) :
                      GetHotPatterns(patterns, mi)[k].pattern_id # pid
            /\ \A th \in BreakingThresholds, mt \in QueryMinTrades :
                  \A k \in 1..Len(GetBreakingPatterns(patterns, th, mt)) :
                      GetBreakingPatterns(patterns, th, mt)[k].pattern_id
                          # pid

YoungPatternNeverRankedWitness ==
    /\ ret.op = "track_exit"
    /\ ret.ok
    /\ patterns[DeepId].total_trades = RecentWindow
    /\ patterns[DeepId].winning_trades = 10
    /\ patterns[DeepId].recent_win_rate = <<1, 2>>

-----------------------------------------------------------------------------
(* Properties of a deactivated pattern.                                    *)

(* C27: a pattern that is inactive stays inactive through every            *)
(* operation; a trade close on it still adds the trade to its statistics   *)
(* and sets its last-traded date to the day of the close; and no ranking   *)
(* query returns it.                                                       *)
InactiveStaysInactive ==
    [][\A pid \in DOMAIN patterns :
          ~patterns[pid].is_active =>
              /\ pid \in DOMAIN patterns'
              /\ ~patterns'[pid].is_active
              /\ (/\ ret'.op \in {"track_exit", "update_pattern_performance"}
                  /\ ret'.pid = pid)
                    => /\ ret'.ok
                       /\ patterns'[pid].total_trades
                             = patterns[pid].total_trades + 1
                       /\ patterns'[pid].last_traded_date = Some(today')
              /\ \A query \in RankingQueries :
                    pid \notin IdsOf(Ranked(query, patterns'))]_vars

InactiveStaysInactiveWitness ==
    /\ ret.op = "track_exit"
    /\ ret.ok
    /\ ~patterns[ret.pid].is_active
    /\ patterns[ret.pid].total_trades = HotDict.stats.total_trades + 1
    /\ patterns[ret.pid].last_traded_date = Some(today)
    /\ today > 0

-----------------------------------------------------------------------------
(* Properties of the entries tracked by analyze_with_patterns.             *)

(* C28: every trade-history row that analyze_with_patterns creates through *)
(* track_entry names a pattern that has a row in the store at that moment, *)
(* also when classify_trade failed and returned the id 'unknown'.          *)
TrackedEntryHasPattern ==
    [][ret'.op = "process_batch" =>
          \A i \in (Len(tradeHistory) + 1)..Len(tradeHistory') :
              Exists(patterns', tradeHistory'[i].pattern_id)]_vars

-----------------------------------------------------------------------------
(* Properties of the recent-injection buffer.                              *)

(* C29: inject_pattern_batch adds a pattern id to the recent-injection     *)
(* buffer only if a memory about that pattern was delivered to at least    *)
(* one channel in the same call.                                           *)
BufferedOnlyIfDelivered ==
    ret.op = "inject_pattern_batch" =>
        \A pid \in BatchIds :
            (~InBufferBefore(pid) /\ WasRecentlyInjected(injectionHistory, pid))
                => DeliveryCount(NewDeliveries, AllChannels, pid) >= 1

-----------------------------------------------------------------------------
(* Properties of the regime transition report.                             *)

(* C30: when _analyze_regime_transitions detects a transition from regime  *)
(* A to a different regime B, the analysis run_weekly_analysis stores      *)
(* under findings.regime_transition has from_regime = A and to_regime = B. *)
TransitionReported ==
    (ret.op = "run_weekly_analysis" /\ ret.regime_transition # Null) =>
        /\ ret.regime_transition[1].from_regime = ret.pointer_before[1]
        /\ ret.regime_transition[1].to_regime = ret.observed[1]
        /\ ret.regime_transition[1].from_regime
              # ret.regime_transition[1].to_regime

=============================================================================
